---- MODULE Spec2Model ----
(***************************************************************************)
(* State-machine model of the event-intake control plane:                  *)
(*   - the idempotency store (claim / lease / complete / fail),            *)
(*   - the mailbox cursor store (check_late / try_advance),                *)
(*   - the ingest pipeline _process_ingest and its two HTTP entry points.  *)
(* The SQLite backends are modelled; every store method runs inside one    *)
(* database transaction and is therefore one atomic step.                  *)
(***************************************************************************)
EXTENDS Integers, Sequences, FiniteSets, TLC

(***************************************************************************)
(* Bounds of the model and program constants.                              *)
(***************************************************************************)
\* the clock runs from 0 to MaxTime seconds, in steps of TickStep seconds
MaxTime == 180
TickStep == 60
\* lease_seconds = 120 (default of try_claim, and what _process_ingest passes)
LeaseSeconds == 120
\* mark_failed keeps the first 500 characters of the error text
MaxErrorLen == 500
\* most rules in a routing configuration file
MaxRules == 2

\* Optional[...] values: None is the empty tuple, a present value a 1-tuple
None == <<>>
Some(v) == <<v>>
IsSome(o) == o # None
Val(o) == o[1]

Min(a, b) == IF a <= b THEN a ELSE b

\* Idempotency keys are sequences: <<"k1">> is the header value "k1", <<>>
\* the empty header; the keys derived for Gmail are built further down.
ApiKeys == { <<"k1">> }
\* the key the direct store calls work on
StoreKeys == { <<"k1">> }
Owners == {"worker-a", "worker-b"}
\* events are identified by their event_id
StoreEvents == {"evt-1", "evt-2"}
\* Texts are kept run-length encoded: a sequence of runs <<character, count>>.
\* "boom" is ShortError; LongError is MaxErrorLen + 1 times "x".
ShortError == << <<"b", 1>>, <<"o", 2>>, <<"m", 1>> >>
LongError == << <<"x", MaxErrorLen + 1>> >>
ErrorArgs == {None, Some(ShortError), Some(LongError)}

\* text[:n], the first n characters of text
RECURSIVE TextTake(_, _)
TextTake(text, n) ==
    IF text = <<>> \/ n <= 0 THEN <<>>
    ELSE IF text[1][2] <= n
         THEN <<text[1]>> \o TextTake(Tail(text), n - text[1][2])
         ELSE << <<text[1][1], n>> >>

VARIABLES
    now,        \* the wall clock (_utc_now), in seconds
    idem,       \* idempotency table: key -> row (status "absent": no row)
    hist,       \* per key, the last two store calls made on it (observation)
    completions, \* per key, the owner ids whose mark_completed updated its row
                \* (observation)
    cursor,     \* mailbox_cursor table: normalised mailbox -> row
    chist,      \* the last call made on the cursor store (observation)
    shadow,     \* whether SHADOW_MODE is set to a truthy value
    runs,       \* the requests being served: run -> its position and locals
    artifacts,  \* draft-ticket files: event_id -> the draft written (or None)
    failures,   \* the failure-sink file: the FailureRecords appended to it
    probe,      \* the last call made on a unit called on its own, with its
                \* arguments and its result (observation)
    routing_file, \* what the routing configuration path holds
    documents   \* the document backend's collection: key -> document, kept
                \* in the row shape of idem (status "absent": no document)

vars == <<now, idem, hist, completions, cursor, chist, shadow, runs, artifacts,
          failures, probe, routing_file, documents>>
\* what lives outside the serving process and its embedded database
external == <<routing_file, documents>>
storeVars == <<idem, hist, completions>>
cursorVars == <<cursor, chist>>
pipeVars == <<shadow, runs, artifacts, failures>>

(***************************************************************************)
(* Idempotency store (SQLiteIdempotencyStore).                             *)
(* The audit columns created_at / updated_at are written but never read    *)
(* by any method and are left out of the row.                              *)
(***************************************************************************)
NoRow ==
    [status |-> "absent", owner_id |-> None, lease_until |-> None,
     event |-> None, last_error |-> None]

ClaimResult(claimed, status, owner_id, lease_until, existing_event) ==
    [claimed |-> claimed, status |-> status, owner_id |-> owner_id,
     lease_until |-> lease_until, existing_event |-> existing_event]

\* faulty variant of lease_expired: the comparison with the clock the wrong way round
lease_expired_inverted(row, t) ==
    IF IsSome(row.lease_until) THEN Val(row.lease_until) > t ELSE TRUE

\* lease_expired of try_claim: a missing lease counts as expired, a stored
\* one is expired once existing_lease <= now
lease_expired(row, t) ==
    IF IsSome(row.lease_until) THEN Val(row.lease_until) <= t ELSE TRUE

\* faulty variant of try_claim: no check for another worker's running lease
try_claim_no_lease_check(row, event, lease_seconds, owner_id, fresh, t) ==
    LET owner == IF IsSome(owner_id) THEN Val(owner_id) ELSE fresh
        lease_until == t + lease_seconds
        claimedRow == [status |-> "claimed", owner_id |-> Some(owner),
                       lease_until |-> Some(lease_until),
                       event |-> Some(event), last_error |-> None]
    IN  IF row.status = "absent"
        THEN [row |-> claimedRow,
              result |-> ClaimResult(TRUE, "claimed", Some(owner),
                                     Some(lease_until), None)]
        ELSE IF row.status = "completed"
        THEN [row |-> row,
              result |-> ClaimResult(FALSE, "completed", row.owner_id,
                                     row.lease_until, row.event)]
        ELSE [row |-> claimedRow,
              result |-> ClaimResult(TRUE, "claimed", Some(owner),
                                     Some(lease_until), row.event)]

\* faulty variant of try_claim: a failed key is treated like a completed one
try_claim_failed_terminal(row, event, lease_seconds, owner_id, fresh, t) ==
    LET owner == IF IsSome(owner_id) THEN Val(owner_id) ELSE fresh
        lease_until == t + lease_seconds
        claimedRow == [status |-> "claimed", owner_id |-> Some(owner),
                       lease_until |-> Some(lease_until),
                       event |-> Some(event), last_error |-> None]
    IN  IF row.status = "absent"
        THEN [row |-> claimedRow,
              result |-> ClaimResult(TRUE, "claimed", Some(owner),
                                     Some(lease_until), None)]
        ELSE IF row.status \in {"completed", "failed"}
        THEN [row |-> row,
              result |-> ClaimResult(FALSE, row.status, row.owner_id,
                                     row.lease_until, row.event)]
        ELSE IF row.status = "claimed" /\ ~lease_expired(row, t)
        THEN [row |-> row,
              result |-> ClaimResult(FALSE, "claimed", row.owner_id,
                                     row.lease_until, row.event)]
        ELSE [row |-> claimedRow,
              result |-> ClaimResult(TRUE, "claimed", Some(owner),
                                     Some(lease_until), row.event)]

\* faulty variant of try_claim: a rejected claim still stores the caller's event
try_claim_rejected_stores_event(row, event, lease_seconds, owner_id, fresh, t) ==
    LET owner == IF IsSome(owner_id) THEN Val(owner_id) ELSE fresh
        lease_until == t + lease_seconds
        claimedRow == [status |-> "claimed", owner_id |-> Some(owner),
                       lease_until |-> Some(lease_until),
                       event |-> Some(event), last_error |-> None]
    IN  IF row.status = "absent"
        THEN [row |-> claimedRow,
              result |-> ClaimResult(TRUE, "claimed", Some(owner),
                                     Some(lease_until), None)]
        ELSE IF row.status = "completed"
        THEN [row |-> [row EXCEPT !.event = Some(event)],
              result |-> ClaimResult(FALSE, "completed", row.owner_id,
                                     row.lease_until, row.event)]
        ELSE IF row.status = "claimed" /\ ~lease_expired(row, t)
        THEN [row |-> [row EXCEPT !.event = Some(event)],
              result |-> ClaimResult(FALSE, "claimed", row.owner_id,
                                     row.lease_until, row.event)]
        ELSE [row |-> claimedRow,
              result |-> ClaimResult(TRUE, "claimed", Some(owner),
                                     Some(lease_until), row.event)]

\* try_claim(key, event, lease_seconds, owner_id) on the row of key at time t.
\* owner_id is Optional; fresh is the worker id synthesised when it is None.
\* Yields the row after the transaction and the ClaimResult returned.
try_claim(row, event, lease_seconds, owner_id, fresh, t) ==
    LET owner == IF IsSome(owner_id) THEN Val(owner_id) ELSE fresh
        lease_until == t + lease_seconds
        claimedRow == [status |-> "claimed", owner_id |-> Some(owner),
                       lease_until |-> Some(lease_until),
                       event |-> Some(event), last_error |-> None]
    IN  IF row.status = "absent"
        THEN [row |-> claimedRow,
              result |-> ClaimResult(TRUE, "claimed", Some(owner),
                                     Some(lease_until), None)]
        ELSE IF row.status = "completed"
        THEN [row |-> row,
              result |-> ClaimResult(FALSE, "completed", row.owner_id,
                                     row.lease_until, row.event)]
        ELSE IF row.status = "claimed" /\ ~lease_expired(row, t)
        THEN [row |-> row,
              result |-> ClaimResult(FALSE, "claimed", row.owner_id,
                                     row.lease_until, row.event)]
        ELSE [row |-> claimedRow,
              result |-> ClaimResult(TRUE, "claimed", Some(owner),
                                     Some(lease_until), row.event)]

\* faulty variant of mark_completed: lease_until and last_error are left as they are
mark_completed_keeps_lease(row, owner_id) ==
    IF row.status = "absent" THEN row
    ELSE [row EXCEPT !.status = "completed", !.owner_id = Some(owner_id)]

\* mark_completed(key, owner_id): UPDATE ... WHERE key=? (no row: no effect)
mark_completed(row, owner_id) ==
    IF row.status = "absent" THEN row
    ELSE [row EXCEPT !.status = "completed", !.owner_id = Some(owner_id),
                     !.lease_until = None, !.last_error = None]

\* (error or "")[:500]
truncate_error(error) ==
    LET e == IF IsSome(error) THEN Val(error) ELSE <<>>
    IN  TextTake(e, MaxErrorLen)

\* mark_failed(key, owner_id, error): UPDATE ... WHERE key=? (no row: no effect)
mark_failed(row, owner_id, error) ==
    IF row.status = "absent" THEN row
    ELSE [row EXCEPT !.status = "failed", !.owner_id = Some(owner_id),
                     !.lease_until = None,
                     !.last_error = Some(truncate_error(error))]

\* set(key, event): unconditional upsert as completed
set(row, event) ==
    [status |-> "completed", owner_id |-> None, lease_until |-> None,
     event |-> Some(event), last_error |-> None]

\* get(key): the stored event, None when there is no row
get(row) == IF row.status = "absent" THEN None ELSE row.event

(***************************************************************************)
(* Direct calls of the store interface (as the store's tests make them).   *)
(***************************************************************************)
Record(k, call) ==
    hist' = [hist EXCEPT ![k] =
                IF Len(@) < 2 THEN Append(@, call) ELSE <<@[2], call>>]

TryClaimCall(k, e, o) ==
    LET r == try_claim(idem[k], e, LeaseSeconds, Some(o), o, now)
    IN  /\ idem' = [idem EXCEPT ![k] = r.row]
        /\ Record(k, [op |-> "try_claim", owner |-> o, at |-> now,
                      pre |-> idem[k], post |-> r.row, ret |-> r.result])
        /\ UNCHANGED <<now, completions, cursorVars, pipeVars, probe,
                       external>>

\* a mark_completed call whose UPDATE found the row is noted in completions
NoteCompleted(k, o) ==
    completions' = [completions EXCEPT ![k] =
                       IF idem[k].status = "absent" THEN @ ELSE @ \cup {o}]

MarkCompletedCall(k, o) ==
    /\ idem' = [idem EXCEPT ![k] = mark_completed(idem[k], o)]
    /\ Record(k, [op |-> "mark_completed", owner |-> o, at |-> now,
                  pre |-> idem[k], post |-> idem'[k], ret |-> None])
    /\ NoteCompleted(k, o)
    /\ UNCHANGED <<now, cursorVars, pipeVars, probe, external>>

MarkFailedCall(k, o, err) ==
    /\ idem' = [idem EXCEPT ![k] = mark_failed(idem[k], o, err)]
    /\ Record(k, [op |-> "mark_failed", owner |-> o, at |-> now,
                  pre |-> idem[k], post |-> idem'[k], ret |-> None])
    /\ UNCHANGED <<now, completions, cursorVars, pipeVars, probe, external>>

SetCall(k, e) ==
    /\ idem' = [idem EXCEPT ![k] = set(idem[k], e)]
    /\ Record(k, [op |-> "set", owner |-> "", at |-> now,
                  pre |-> idem[k], post |-> idem'[k], ret |-> None])
    /\ UNCHANGED <<now, completions, cursorVars, pipeVars, probe, external>>

GetCall(k) ==
    /\ Record(k, [op |-> "get", owner |-> "", at |-> now,
                  pre |-> idem[k], post |-> idem[k], ret |-> get(idem[k])])
    /\ UNCHANGED <<now, idem, completions, cursorVars, pipeVars, probe,
                   external>>


(***************************************************************************)
(* Strings that the code parses or normalises are character sequences.     *)
(***************************************************************************)
Digits == {"0", "1", "2", "3", "4", "5", "6", "7", "8", "9"}
DigitVal(c) ==
    CASE c = "0" -> 0 [] c = "1" -> 1 [] c = "2" -> 2 [] c = "3" -> 3
      [] c = "4" -> 4 [] c = "5" -> 5 [] c = "6" -> 6 [] c = "7" -> 7
      [] c = "8" -> 8 [] c = "9" -> 9

\* str.strip(): leading and trailing blanks removed
RECURSIVE LStrip(_)
LStrip(str) ==
    IF str # <<>> /\ Head(str) = " " THEN LStrip(Tail(str)) ELSE str
RECURSIVE RStrip(_)
RStrip(str) ==
    IF str # <<>> /\ str[Len(str)] = " "
    THEN RStrip(SubSeq(str, 1, Len(str) - 1)) ELSE str
Strip(str) == RStrip(LStrip(str))

\* str.lower() on the letters the model uses
LowerChar(c) ==
    CASE c = "A" -> "a" [] c = "B" -> "b" [] c = "S" -> "s"
      [] c = "P" -> "p" [] c = "H" -> "h" [] OTHER -> c
Lower(str) == [i \in 1..Len(str) |-> LowerChar(str[i])]

\* the value of a non-empty digit sequence
RECURSIVE DigitsValue(_)
DigitsValue(ds) ==
    IF ds = <<>> THEN 0
    ELSE 10 * DigitsValue(SubSeq(ds, 1, Len(ds) - 1)) + DigitVal(ds[Len(ds)])

AllDigits(ds) == ds # <<>> /\ \A i \in 1..Len(ds) : ds[i] \in Digits

\* int(s), None on ValueError: an optional sign followed by digits
ParseInt(str) ==
    IF AllDigits(str) THEN Some(DigitsValue(str))
    ELSE IF str # <<>> /\ Head(str) = "-" /\ AllDigits(Tail(str))
         THEN Some(0 - DigitsValue(Tail(str)))
    ELSE IF str # <<>> /\ Head(str) = "+" /\ AllDigits(Tail(str))
         THEN Some(DigitsValue(Tail(str)))
    ELSE None

\* _parse_history_id(history_id): Optional[str] -> Optional[int]
_parse_history_id(history_id) ==
    IF history_id = None THEN None
    ELSE LET str == Strip(Val(history_id))
         IN  IF str = <<>> THEN None ELSE ParseInt(str)

(***************************************************************************)
(* Mailbox cursor store (SQLiteMailboxCursorStore).                        *)
(* A row is [exists, history_id]; history_id is a nullable INTEGER.        *)
(***************************************************************************)
MailboxArgs == { <<"a">>, <<"A", " ">>, <<"b">> }
Mailboxes == { Lower(Strip(m)) : m \in MailboxArgs }
HistoryIdArgs ==
    { None, Some(<<>>), Some(<<"x">>), Some(<<"1">>), Some(<<" ", "2">>),
      Some(<<"3">>), Some(<<"1", "0">>), Some(<<"-", "1">>) }

NoCursorRow == [exists |-> FALSE, history_id |-> None]

\* get_cursor(mailbox)
get_cursor(cur, mailbox) ==
    LET m == Lower(Strip(mailbox))
    IN  IF ~cur[m].exists THEN None ELSE cur[m].history_id

CursorCheck(mailbox, incoming, current, is_late, reason) ==
    [mailbox |-> mailbox, incoming_history_id |-> incoming,
     current_history_id |-> current, is_late |-> is_late, reason |-> reason]

\* faulty variant of check_late: an incoming id equal to the cursor counts as behind
check_late_equal_is_behind(cur, mailbox, incoming_history_id) ==
    LET m == Lower(Strip(mailbox))
        incoming == _parse_history_id(incoming_history_id)
        current == get_cursor(cur, m)
    IN  IF incoming_history_id # None /\ incoming = None
        THEN CursorCheck(m, None, current, FALSE, "INVALID_HISTORY_ID")
        ELSE IF incoming = None
        THEN CursorCheck(m, None, current, FALSE, "NO_INCOMING_HISTORY_ID")
        ELSE IF current = None
        THEN CursorCheck(m, incoming, None, FALSE, "NO_CURSOR")
        ELSE IF Val(incoming) <= Val(current)
        THEN CursorCheck(m, incoming, current, TRUE, "BEHIND_CURSOR")
        ELSE CursorCheck(m, incoming, current, FALSE, "OK")

\* check_late(mailbox, incoming_history_id)
check_late(cur, mailbox, incoming_history_id) ==
    LET m == Lower(Strip(mailbox))
        incoming == _parse_history_id(incoming_history_id)
        current == get_cursor(cur, m)
    IN  IF incoming_history_id # None /\ incoming = None
        THEN CursorCheck(m, None, current, FALSE, "INVALID_HISTORY_ID")
        ELSE IF incoming = None
        THEN CursorCheck(m, None, current, FALSE, "NO_INCOMING_HISTORY_ID")
        ELSE IF current = None
        THEN CursorCheck(m, incoming, None, FALSE, "NO_CURSOR")
        ELSE IF Val(incoming) < Val(current)
        THEN CursorCheck(m, incoming, current, TRUE, "BEHIND_CURSOR")
        ELSE IF Val(incoming) = Val(current)
        THEN CursorCheck(m, incoming, current, FALSE, "AT_CURSOR")
        ELSE CursorCheck(m, incoming, current, FALSE, "OK")

\* faulty variant of try_advance: the stored value is overwritten without comparing
try_advance_no_compare(cur, mailbox, new_history_id) ==
    LET m == Lower(Strip(mailbox))
        new_val == _parse_history_id(new_history_id)
        written == [cur EXCEPT ![m] = [exists |-> TRUE, history_id |-> new_val]]
    IN  IF new_val = None
        THEN [cursor |-> cur, result |-> FALSE]
        ELSE [cursor |-> written, result |-> TRUE]

\* faulty variant of try_advance: >= where the code has >
try_advance_or_equal(cur, mailbox, new_history_id) ==
    LET m == Lower(Strip(mailbox))
        new_val == _parse_history_id(new_history_id)
        written == [cur EXCEPT ![m] = [exists |-> TRUE, history_id |-> new_val]]
    IN  IF new_val = None
        THEN [cursor |-> cur, result |-> FALSE]
        ELSE IF ~cur[m].exists
        THEN [cursor |-> written, result |-> TRUE]
        ELSE IF cur[m].history_id = None
                \/ Val(new_val) >= Val(cur[m].history_id)
        THEN [cursor |-> written, result |-> TRUE]
        ELSE [cursor |-> cur, result |-> FALSE]

\* try_advance(mailbox, new_history_id): the table after the transaction and
\* the value returned
try_advance(cur, mailbox, new_history_id) ==
    LET m == Lower(Strip(mailbox))
        new_val == _parse_history_id(new_history_id)
        written == [cur EXCEPT ![m] = [exists |-> TRUE, history_id |-> new_val]]
    IN  IF new_val = None
        THEN [cursor |-> cur, result |-> FALSE]
        ELSE IF ~cur[m].exists
        THEN [cursor |-> written, result |-> TRUE]
        ELSE IF cur[m].history_id = None
                \/ Val(new_val) > Val(cur[m].history_id)
        THEN [cursor |-> written, result |-> TRUE]
        ELSE [cursor |-> cur, result |-> FALSE]

(***************************************************************************)
(* Direct calls of the cursor store interface.                             *)
(***************************************************************************)
TryAdvanceCall(m, h) ==
    LET r == try_advance(cursor, m, h)
    IN  /\ cursor' = r.cursor
        /\ chist' = Some([op |-> "try_advance", mailbox |-> m, arg |-> h,
                          pre |-> cursor, ret |-> r.result])
        /\ UNCHANGED <<now, storeVars, pipeVars, probe, external>>

CheckLateCall(m, h) ==
    /\ chist' = Some([op |-> "check_late", mailbox |-> m, arg |-> h,
                      pre |-> cursor, ret |-> check_late(cursor, m, h)])
    /\ UNCHANGED <<now, storeVars, cursor, pipeVars, probe, external>>

GetCursorCall(m) ==
    /\ chist' = Some([op |-> "get_cursor", mailbox |-> m, arg |-> None,
                      pre |-> cursor, ret |-> get_cursor(cursor, m)])
    /\ UNCHANGED <<now, storeVars, cursor, pipeVars, probe, external>>

(***************************************************************************)
(* Decision router (route_event) and actuator (execute_decision).          *)
(***************************************************************************)
\* whether sub occurs in str (the Python test  sub in str)
Contains(str, sub) ==
    \E i \in 1..(Len(str) - Len(sub) + 1) :
        SubSeq(str, i, i + Len(sub) - 1) = sub

security_keywords ==
    { <<"p", "a", "s", "s", "w", "o", "r", "d">>,
      <<"c", "r", "e", "d", "e", "n", "t", "i", "a", "l">>,
      <<"s", "e", "c", "u", "r", "i", "t", "y">>,
      <<"b", "r", "e", "a", "c", "h">> }

\* _get_text(event): payload["text"] when it is a string, else ""
_get_text(event) ==
    IF IsSome(event.payload.text) THEN Val(event.payload.text) ELSE <<>>

\* truthiness of an Optional[str]
Truthy(o) == IsSome(o) /\ Val(o) # <<>>

\* The four Decisions route_event can return; base carries decision_id and
\* event_id.
NoopLateDecision(event, base) ==
    base @@
    [route |-> "NOOP_LATE_EVENT", risk_level |-> "low",
     reason |-> <<"Late/out-of-order event: ",
                  IF Truthy(event.late_reason)
                  THEN Val(event.late_reason) ELSE <<"UNKNOWN">> >>,
     proposed_action |-> [type |-> "noop", reason |-> "late_event",
                          late_reason |-> event.late_reason],
     decision_source |-> Some("fallback")]
EscalateDecision(base) ==
    base @@
    [route |-> "ESCALATE_HUMAN", risk_level |-> "high",
     reason |-> <<"Security-related keyword detected">>,
     proposed_action |-> <<>>,
     decision_source |-> None]
MoreInfoDecision(base) ==
    base @@
    [route |-> "REQUEST_MORE_INFO", risk_level |-> "medium",
     reason |-> <<"Missing required field: urgency">>,
     proposed_action |->
        [question |-> "How urgent is this? (low / medium / high)",
         missing_fields |-> <<"urgency">>],
     decision_source |-> None]
DraftDecision(event, base, text, urgency) ==
    base @@
    [route |-> "CREATE_DRAFT_TICKET", risk_level |-> "low",
     reason |-> <<"Standard support request">>,
     proposed_action |->
        [type |-> "create_ticket_draft", queue |-> "IT",
         priority |-> Lower(Val(urgency)),
         summary |-> IF text # <<>>
                     THEN SubSeq(text, 1, Min(Len(text), 80))
                     ELSE <<"Support request">>,
         description |-> event.payload],
     decision_source |-> None]

\* faulty variant of route_event: the security keywords are looked for
\* before the late flag
route_event_keywords_first(event, decision_id) ==
    LET text == Lower(_get_text(event))
        urgency == event.payload.urgency
        base == [decision_id |-> decision_id, event_id |-> event.event_id]
    IN  IF \E k \in security_keywords : Contains(text, k)
        THEN EscalateDecision(base)
        ELSE IF event.is_late_event
        THEN NoopLateDecision(event, base)
        ELSE IF ~Truthy(urgency)
        THEN MoreInfoDecision(base)
        ELSE DraftDecision(event, base, text, urgency)

\* faulty variant of route_event: the urgency rule comes before the
\* security keywords
route_event_urgency_first(event, decision_id) ==
    LET text == Lower(_get_text(event))
        urgency == event.payload.urgency
        base == [decision_id |-> decision_id, event_id |-> event.event_id]
    IN  IF event.is_late_event
        THEN NoopLateDecision(event, base)
        ELSE IF ~Truthy(urgency)
        THEN MoreInfoDecision(base)
        ELSE IF \E k \in security_keywords : Contains(text, k)
        THEN EscalateDecision(base)
        ELSE DraftDecision(event, base, text, urgency)

\* faulty variant of route_event: urgency counts as missing only when it is
\* absent ("urgency is None"), so an empty urgency gets a draft ticket
route_event_urgency_none_only(event, decision_id) ==
    LET text == Lower(_get_text(event))
        urgency == event.payload.urgency
        base == [decision_id |-> decision_id, event_id |-> event.event_id]
    IN  IF event.is_late_event
        THEN NoopLateDecision(event, base)
        ELSE IF \E k \in security_keywords : Contains(text, k)
        THEN EscalateDecision(base)
        ELSE IF urgency = None
        THEN MoreInfoDecision(base)
        ELSE DraftDecision(event, base, text, urgency)

\* faulty variant of route_event: the late flag is read from the metadata
\* instead of the event's own field
route_event_reads_metadata(event, decision_id) ==
    LET text == Lower(_get_text(event))
        urgency == event.payload.urgency
        base == [decision_id |-> decision_id, event_id |-> event.event_id]
    IN  IF event.metadata.is_late_event
        THEN NoopLateDecision(event, base)
        ELSE IF \E k \in security_keywords : Contains(text, k)
        THEN EscalateDecision(base)
        ELSE IF ~Truthy(urgency)
        THEN MoreInfoDecision(base)
        ELSE DraftDecision(event, base, text, urgency)

\* route_event(event); decision_id is the uuid it draws
route_event(event, decision_id) ==
    LET text == Lower(_get_text(event))
        urgency == event.payload.urgency
        base == [decision_id |-> decision_id, event_id |-> event.event_id]
    IN  IF event.is_late_event
        THEN NoopLateDecision(event, base)
        ELSE IF \E k \in security_keywords : Contains(text, k)
        THEN EscalateDecision(base)
        ELSE IF ~Truthy(urgency)
        THEN MoreInfoDecision(base)
        ELSE DraftDecision(event, base, text, urgency)

\* the draft written by execute_decision for a CREATE_DRAFT_TICKET decision
draft_payload(event, decision) ==
    [event_id |-> event.event_id, decision_id |-> decision.decision_id,
     route |-> decision.route, risk_level |-> decision.risk_level,
     reason |-> decision.reason, proposed_action |-> decision.proposed_action]

\* What _write_json can do to the file: write it ("ok"); raise before the
\* file is opened, leaving the directory as it was ("not_opened"); raise
\* after open("w") truncated or created the file ("truncated").
IoOutcomes == {"ok", "not_opened", "truncated"}
\* the content of a file whose write broke off
TruncatedFile == [truncated |-> TRUE]

\* the path of the draft of an event: DRAFT_DIR / "<event_id>.draft_ticket.json"
artifact_path(event) == <<"artifacts/drafts/", event.event_id, ".draft_ticket.json">>

\* faulty variant of execute_decision: a draft that exists is kept (the file
\* is created exclusively instead of being overwritten)
execute_decision_keeps_first(files, event, decision, io) ==
    IF decision.route = "CREATE_DRAFT_TICKET"
    THEN IF io = "ok"
         THEN [files |-> IF files[event.event_id] = None
                         THEN [files EXCEPT ![event.event_id] =
                                    Some(draft_payload(event, decision))]
                         ELSE files,
               raised |-> FALSE, status |-> "executed",
               artifact_path |-> Some(artifact_path(event))]
         ELSE IF io = "truncated"
         THEN [files |-> [files EXCEPT ![event.event_id] = Some(TruncatedFile)],
               raised |-> TRUE, status |-> "failed", artifact_path |-> None]
         ELSE [files |-> files, raised |-> TRUE, status |-> "failed",
               artifact_path |-> None]
    ELSE [files |-> files, raised |-> FALSE, status |-> "noop",
          artifact_path |-> None]

\* execute_decision(event, decision) on the draft directory: only a
\* CREATE_DRAFT_TICKET decision writes, to the file named after event_id.
\* io is what the file write does; status "failed" stands for the exception
\* that leaves execute_decision when the write raises.
execute_decision(files, event, decision, io) ==
    IF decision.route = "CREATE_DRAFT_TICKET"
    THEN IF io = "ok"
         THEN [files |-> [files EXCEPT ![event.event_id] =
                                    Some(draft_payload(event, decision))],
               raised |-> FALSE, status |-> "executed",
               artifact_path |-> Some(artifact_path(event))]
         ELSE IF io = "truncated"
         THEN [files |-> [files EXCEPT ![event.event_id] = Some(TruncatedFile)],
               raised |-> TRUE, status |-> "failed", artifact_path |-> None]
         ELSE [files |-> files, raised |-> TRUE, status |-> "failed",
               artifact_path |-> None]
    ELSE [files |-> files, raised |-> FALSE, status |-> "noop",
          artifact_path |-> None]

(***************************************************************************)
(* Requests.                                                               *)
(***************************************************************************)
Runs == {"r1", "r2"}
\* uuid4 values are unique per call; each run draws one of each kind
WorkerId(r) == "worker-" \o r
EventId(r) == "evt-" \o r
DecisionId(r) == "dec-" \o r
EventIds == { EventId(r) : r \in Runs }

TextPrinter == <<"P", "r", "i", "n", "t", "e", "r">>
TextHigh == <<"H", "i", "g", "h">>

Payload(text, urgency, mailbox, history_id, message_id) ==
    [text |-> text, urgency |-> urgency, mailbox |-> mailbox,
     history_id |-> history_id, message_id |-> message_id]

NoMetadata == [is_late_event |-> FALSE, late_reason |-> None]

\* IngestRequest bodies posted to /ingest/api
ApiRequests ==
    { \* a complete support request; its payload happens to carry a mailbox
      \* and a history id
      [source |-> "api",
       payload |-> Payload(Some(TextPrinter), Some(TextHigh),
                           Some(<<"b">>), Some(<<"3">>), None),
       metadata |-> NoMetadata],
      \* a complete request that names gmail as its source, with a mailbox
      \* and a history id in the payload
      [source |-> "gmail",
       payload |-> Payload(Some(TextPrinter), Some(TextHigh),
                           Some(<<"A", " ">>), Some(<<"2">>), None),
       metadata |-> NoMetadata],
      \* a request flagged late by its sender
      [source |-> "gmail",
       payload |-> Payload(None, None, Some(<<"a">>), Some(<<"1">>), None),
       metadata |-> [is_late_event |-> TRUE,
                     late_reason |-> Some(<<"BEHIND_CURSOR">>)]] }

\* Idempotency-Key header values: missing, empty, present
ApiKeyArgs == {None, Some(<<>>)} \cup { Some(k) : k \in ApiKeys }

\* GmailIngestRequest bodies posted to /ingest/gmail
GmailRequests ==
    { [mailbox |-> <<"a">>, message_id |-> Some(<<"m", "1">>),
       history_id |-> Some(<<"3">>)],
      [mailbox |-> <<"A", " ">>, message_id |-> None,
       history_id |-> Some(<<"1">>)],
      [mailbox |-> <<"a">>, message_id |-> None, history_id |-> None],
      [mailbox |-> <<"a">>, message_id |-> Some(<<>>), history_id |-> None] }

\* faulty variant of _gmail_idempotency_key: the history id is looked at
\* before the message id
_gmail_idempotency_key_history_first(greq) ==
    LET mailbox == Lower(Strip(greq.mailbox))
    IN  IF Truthy(greq.history_id)
        THEN Some(<<"gmail:mailbox=", mailbox, ":history_id=",
                    Val(greq.history_id)>>)
        ELSE IF Truthy(greq.message_id)
        THEN Some(<<"gmail:mailbox=", mailbox, ":message_id=",
                    Val(greq.message_id)>>)
        ELSE None

\* faulty variant of _gmail_idempotency_key: a trigger with neither id is
\* keyed by its mailbox alone instead of being rejected
_gmail_idempotency_key_no_reject(greq) ==
    LET mailbox == Lower(Strip(greq.mailbox))
    IN  IF Truthy(greq.message_id)
        THEN Some(<<"gmail:mailbox=", mailbox, ":message_id=",
                    Val(greq.message_id)>>)
        ELSE IF Truthy(greq.history_id)
        THEN Some(<<"gmail:mailbox=", mailbox, ":history_id=",
                    Val(greq.history_id)>>)
        ELSE Some(<<"gmail:mailbox=", mailbox>>)

\* _gmail_idempotency_key(greq); None stands for the HTTPException(400)
_gmail_idempotency_key(greq) ==
    LET mailbox == Lower(Strip(greq.mailbox))
    IN  IF Truthy(greq.message_id)
        THEN Some(<<"gmail:mailbox=", mailbox, ":message_id=",
                    Val(greq.message_id)>>)
        ELSE IF Truthy(greq.history_id)
        THEN Some(<<"gmail:mailbox=", mailbox, ":history_id=",
                    Val(greq.history_id)>>)
        ELSE None

GmailKeys ==
    { Val(_gmail_idempotency_key(g)) :
        g \in { q \in GmailRequests : _gmail_idempotency_key(q) # None } }

Keys == ApiKeys \cup GmailKeys

\* normalize_gmail_ingest(greq), with the late-event determination that
\* ingest_gmail adds to the metadata
normalize_gmail_ingest(greq, cursor_check) ==
    [source |-> "gmail",
     payload |-> Payload(None, None, Some(greq.mailbox), greq.history_id,
                         greq.message_id),
     metadata |-> [is_late_event |-> cursor_check.is_late,
                   late_reason |-> IF cursor_check.is_late
                                   THEN Some(<<cursor_check.reason>>)
                                   ELSE None]]

\* the candidate Event built by _process_ingest
candidate_event(r, req) ==
    [event_id |-> EventId(r), source |-> req.source,
     payload |-> req.payload, metadata |-> req.metadata,
     is_late_event |-> req.metadata.is_late_event,
     late_reason |-> req.metadata.late_reason]

\* str(e) of the exception raised by a failed draft-file write and by a
\* failed log-file write
IoErrorText == ShortError
LogErrorText == << <<"l", 1>>, <<"o", 1>>, <<"g", 1>> >>

\* ---------------------------------------------------------------------------
\* The routing configuration loader (core/config_loader.py)
\* ---------------------------------------------------------------------------

\* A rule as the JSON document gives it: a key that is missing is None (for
\* field and value a null is None as well).  One rule lacks its rule_id.
RawRules ==
    { [rule_id |-> Some("r1"), match_type |-> Some("keyword"),
       field |-> field, value |-> None, route |-> Some(route)] :
        field \in {None, Some("text")},
        route \in {"ESCALATE_HUMAN", "CREATE_DRAFT_TICKET", "UNDEFINED"} }
    \cup
    { [rule_id |-> None, match_type |-> Some("always"),
       field |-> None, value |-> None, route |-> Some("ESCALATE_HUMAN")] }

RawRuleLists ==
    UNION { [1..n -> RawRules] : n \in 0..MaxRules }

\* JSON documents: the keys version, routes and rules, each possibly missing
\* (None)
RawConfigs ==
    [version : {None, Some("1.0")},
     routes : {None, Some(<<>>), Some(<<"ESCALATE_HUMAN">>),
               Some(<<"ESCALATE_HUMAN", "CREATE_DRAFT_TICKET">>)},
     rules : {None} \cup { Some(l) : l \in RawRuleLists }]

\* What the path may hold: nothing, text that is not JSON, or a document
NoFile == [kind |-> "missing"]
NotJson == [kind |-> "not_json"]
ConfigFiles ==
    {NoFile, NotJson} \cup { [kind |-> "json", raw |-> raw] : raw \in RawConfigs }

\* RoutingRule.model_validate: None when a required field is missing
ValidRule(raw) ==
    IF raw.rule_id = None \/ raw.match_type = None \/ raw.route = None
    THEN None
    ELSE Some([rule_id |-> Val(raw.rule_id),
               match_type |-> Val(raw.match_type),
               field |-> raw.field, value |-> raw.value,
               route |-> Val(raw.route)])

\* RoutingConfig.model_validate(raw): the RoutingConfig, or None for the
\* ValidationError; rules default to the empty list
model_validate(raw) ==
    LET rules == IF raw.rules = None THEN <<>> ELSE Val(raw.rules)
    IN  IF \/ raw.version = None
           \/ raw.routes = None
           \/ \E i \in DOMAIN rules : ValidRule(rules[i]) = None
        THEN None
        ELSE Some([version |-> Val(raw.version),
                   routes |-> Val(raw.routes),
                   rules |-> [i \in DOMAIN rules |-> Val(ValidRule(rules[i]))]])

Range(seq) == { seq[i] : i \in DOMAIN seq }

\* faulty variant of validate_internal_consistency: only the first rule is
\* looked at
validate_internal_consistency_first_only(cfg) ==
    LET route_set == Range(cfg.routes)
    IN  IF cfg.rules # <<>> /\ cfg.rules[1].route \notin route_set
        THEN Some([rule_id |-> cfg.rules[1].rule_id,
                   route |-> cfg.rules[1].route])
        ELSE None

\* RoutingConfig.validate_internal_consistency: the rule and route named by
\* the ValueError (the first rule whose route is not allowed), or None
validate_internal_consistency(cfg) ==
    LET route_set == Range(cfg.routes)
        bad == { i \in DOMAIN cfg.rules : cfg.rules[i].route \notin route_set }
    IN  IF bad = {}
        THEN None
        ELSE LET i == CHOOSE j \in bad : \A k \in bad : j <= k
             IN  Some([rule_id |-> cfg.rules[i].rule_id,
                       route |-> cfg.rules[i].route])

\* load_routing_config(path) where the path holds file
load_routing_config(file) ==
    IF file.kind = "missing"
    THEN [ok |-> FALSE, error |-> "FileNotFoundError"]
    ELSE IF file.kind = "not_json"
    THEN [ok |-> FALSE, error |-> "JSONDecodeError"]
    ELSE LET cfg == model_validate(file.raw)
         IN  IF cfg = None
             THEN [ok |-> FALSE, error |-> "RuntimeError"]
             ELSE LET bad == validate_internal_consistency(Val(cfg))
                  IN  IF bad # None
                      THEN [ok |-> FALSE, error |-> "ValueError",
                            rule_id |-> Val(bad).rule_id,
                            route |-> Val(bad).route]
                      ELSE [ok |-> TRUE, cfg |-> Val(cfg)]

\* a routing configuration at the default path in which every rule names a
\* listed route
DefaultRoutingFile ==
    [kind |-> "json",
     raw |-> [version |-> Some("1.0"),
              routes |-> Some(<<"ESCALATE_HUMAN", "CREATE_DRAFT_TICKET">>),
              rules |-> Some(<< [rule_id |-> Some("r1"),
                                 match_type |-> Some("keyword"),
                                 field |-> Some("text"), value |-> None,
                                 route |-> Some("ESCALATE_HUMAN")] >>)]]
\* a routing configuration whose rule names a route that is not listed
InconsistentRoutingFile ==
    [DefaultRoutingFile EXCEPT !.raw.routes = Some(<<"CREATE_DRAFT_TICKET">>)]

(***************************************************************************)
(* The ingest pipeline.  A run is one HTTP request; its steps are cut at   *)
(* the store transactions.  Every log_event call opens and appends to the  *)
(* log file and raises when that fails (log_ok = FALSE); a crash of the    *)
(* serving process is a run that takes no further step.                    *)
(***************************************************************************)
IdleRun ==
    [pc |-> "idle", trigger |-> None, req |-> None, key |-> None,
     claim |-> None,
     event |-> None, decision |-> None, action |-> None, error |-> None,
     calls |-> {}, log_failed |-> FALSE, outcome |-> "none"]

Finished(run, outcome) == [run EXCEPT !.pc = "done", !.outcome = outcome]
\* the run after a log_event call whose write to the log file raised
LogFailed(run) == [run EXCEPT !.log_failed = TRUE]

\* the two HTTPException(status_code=400) raised, with their detail; every
\* other exception that leaves a request is the outcome "500"
MissingKeyDetail == "400 Missing Idempotency-Key header"
MissingGmailIdDetail ==
    "400 Gmail ingest requires message_id or history_id for deterministic idempotency"

\* faulty variant of WantsAdvance: the source of the request is not looked at
WantsAdvance_any_source(req) ==
    /\ Truthy(req.payload.mailbox)
    /\ Truthy(req.payload.history_id)

\* whether the cursor advance applies to the request
WantsAdvance(req) ==
    /\ req.source = "gmail"
    /\ Truthy(req.payload.mailbox)
    /\ Truthy(req.payload.history_id)

\* faulty variant of ClaimOwner: the owner id of the claim is not passed on
ClaimOwner_unknown(run) == "unknown"

\* claim.owner_id or "unknown"
ClaimOwner(run) ==
    LET owner_id == Val(run.claim).owner_id
    IN  IF IsSome(owner_id) /\ Val(owner_id) # "" THEN Val(owner_id)
        ELSE "unknown"

\* POST /ingest/api: _process_ingest up to the claim
IngestApi(r, req, header) ==
    /\ runs[r].pc = "idle"
    /\ IF ~Truthy(header)
       THEN \E log_ok \in BOOLEAN :
                runs' = [runs EXCEPT ![r] =
                           [(IF log_ok THEN Finished(@, MissingKeyDetail)
                             ELSE LogFailed(Finished(@, "500")))
                              EXCEPT !.req = Some(req)]]
       ELSE runs' = [runs EXCEPT ![r] =
                       [@ EXCEPT !.pc = "claim", !.req = Some(req),
                                 !.key = header,
                                 !.event = Some(candidate_event(r, req))]]
    /\ UNCHANGED <<now, storeVars, cursorVars, shadow, failures, probe,
                   external, artifacts>>

\* POST /ingest/gmail: key derivation, cursor check, normalisation, then
\* _process_ingest up to the claim
IngestGmail(r, greq) ==
    /\ runs[r].pc = "idle"
    /\ LET key == _gmail_idempotency_key(greq)
           cursor_check == check_late(cursor, greq.mailbox, greq.history_id)
           req == normalize_gmail_ingest(greq, cursor_check)
           checked == {"check_late", "normalize_gmail_ingest"}
       IN  \E log_ok \in BOOLEAN :
             runs' = [runs EXCEPT ![r] =
                IF key = None
                THEN [(IF log_ok THEN Finished(@, MissingGmailIdDetail)
                       ELSE LogFailed(Finished(@, "500")))
                        EXCEPT !.trigger = Some(greq)]
                ELSE IF ~log_ok
                THEN [LogFailed(Finished(@, "500"))
                        EXCEPT !.trigger = Some(greq), !.calls = checked]
                ELSE [@ EXCEPT !.pc = "claim", !.trigger = Some(greq),
                               !.req = Some(req), !.key = key,
                               !.event = Some(candidate_event(r, req)),
                               !.calls = checked]]
    /\ UNCHANGED <<now, storeVars, cursorVars, shadow, failures, probe,
                   external, artifacts>>

\* faulty variant of after_decide: no early return for a rejected claim
after_decide_no_duplicate_return(claimed, is_late_event, shadow_mode) ==
    IF is_late_event THEN "noop_complete"
    ELSE IF shadow_mode THEN "noop_complete"
    ELSE "act"

\* where _process_ingest goes once the Decision is made: the duplicate path,
\* the late-event or shadow-mode no-op, or Act
after_decide(claimed, is_late_event, shadow_mode) ==
    IF ~claimed THEN "dup_act"
    ELSE IF is_late_event THEN "noop_complete"
    ELSE IF shadow_mode THEN "noop_complete"
    ELSE "act"

\* Gate 2: try_claim, then Decide
Claim(r) ==
    /\ runs[r].pc = "claim"
    /\ LET run == runs[r]
           key == Val(run.key)
           candidate == Val(run.event)
           res == try_claim(idem[key], candidate, LeaseSeconds, None,
                            WorkerId(r), now)
           claim == res.result
           existing_event ==
               IF IsSome(claim.existing_event) THEN Val(claim.existing_event)
               ELSE IF IsSome(get(res.row)) THEN Val(get(res.row))
               ELSE candidate
           event == IF claim.claimed THEN candidate ELSE existing_event
           decision == route_event(event, DecisionId(r))
           next_pc == after_decide(claim.claimed, event.is_late_event, shadow)
       IN  /\ idem' = [idem EXCEPT ![key] = res.row]
           /\ \E log_ok \in BOOLEAN :
                runs' = [runs EXCEPT ![r] =
                   IF log_ok
                   THEN [@ EXCEPT !.pc = next_pc, !.claim = Some(claim),
                                  !.event = Some(event),
                                  !.decision = Some(decision)]
                   ELSE [LogFailed(Finished(@, "500"))
                           EXCEPT !.claim = Some(claim)]]
    /\ UNCHANGED <<now, hist, completions, cursorVars, shadow, failures,
                   probe, external, artifacts>>

\* duplicate path: Act on the stored event; no failure of it fails the request
DupAct(r) ==
    /\ runs[r].pc = "dup_act"
    /\ \E io \in IoOutcomes, log_ok \in BOOLEAN, handler_log_ok \in BOOLEAN :
         LET run == runs[r]
             act == execute_decision(artifacts, Val(run.event),
                                     Val(run.decision), io)
             caught == act.raised \/ ~log_ok
         IN  /\ artifacts' = act.files
             /\ runs' = [runs EXCEPT ![r] =
                  [Finished(@, IF caught /\ ~handler_log_ok
                               THEN "500" ELSE "ok")
                     EXCEPT !.calls = @ \cup {"execute_decision"},
                            !.action = Some(act.status),
                            !.log_failed = \/ ~act.raised /\ ~log_ok
                                           \/ caught /\ ~handler_log_ok]]
    /\ UNCHANGED <<now, storeVars, cursorVars, shadow, failures, probe,
                   external>>

\* late event or shadow mode: mark completed, no Act, no cursor advance
NoopComplete(r) ==
    /\ runs[r].pc = "noop_complete"
    /\ LET run == runs[r]
           key == Val(run.key)
       IN  /\ idem' = [idem EXCEPT ![key] = mark_completed(@, ClaimOwner(run))]
           /\ NoteCompleted(key, ClaimOwner(run))
           /\ \E log_ok \in BOOLEAN :
                runs' = [runs EXCEPT ![r] =
                   [(IF log_ok THEN Finished(@, "ok")
                     ELSE LogFailed(Finished(@, "500")))
                      EXCEPT !.calls = @ \cup {"mark_completed"}]]
    /\ UNCHANGED <<now, hist, cursorVars, shadow, failures, probe,
                   external, artifacts>>

\* Act on the primary path (inside the try block)
Act(r) ==
    /\ runs[r].pc = "act"
    /\ \E io \in IoOutcomes, log_ok \in BOOLEAN :
         LET run == runs[r]
             act == execute_decision(artifacts, Val(run.event),
                                     Val(run.decision), io)
         IN  /\ artifacts' = act.files
             /\ runs' = [runs EXCEPT ![r] =
                  IF act.raised \/ ~log_ok
                  THEN [@ EXCEPT !.pc = "fail",
                                 !.error = Some(IF act.raised THEN IoErrorText
                                                ELSE LogErrorText),
                                 !.action = Some(act.status),
                                 !.log_failed = ~act.raised,
                                 !.calls = @ \cup {"execute_decision"}]
                  ELSE [@ EXCEPT !.pc = "complete",
                                 !.action = Some(act.status),
                                 !.calls = @ \cup {"execute_decision"}]]
    /\ UNCHANGED <<now, storeVars, cursorVars, shadow, failures, probe,
                   external>>

\* mark completed after a successful Act (still inside the try block)
Complete(r) ==
    /\ runs[r].pc = "complete"
    /\ LET run == runs[r]
           key == Val(run.key)
       IN  /\ idem' = [idem EXCEPT ![key] = mark_completed(@, ClaimOwner(run))]
           /\ NoteCompleted(key, ClaimOwner(run))
           /\ \E log_ok \in BOOLEAN :
                runs' = [runs EXCEPT ![r] =
                   IF ~log_ok
                   THEN [LogFailed(@)
                           EXCEPT !.pc = "fail", !.error = Some(LogErrorText),
                                  !.calls = @ \cup {"mark_completed"}]
                   ELSE IF WantsAdvance(Val(run.req))
                   THEN [@ EXCEPT !.pc = "advance",
                                  !.calls = @ \cup {"mark_completed"}]
                   ELSE [Finished(@, "ok")
                           EXCEPT !.calls = @ \cup {"mark_completed"}]]
    /\ UNCHANGED <<now, hist, cursorVars, shadow, failures, probe,
                   external, artifacts>>

\* mailbox cursor advance (still inside the try block)
Advance(r) ==
    /\ runs[r].pc = "advance"
    /\ LET req == Val(runs[r].req)
           res == try_advance(cursor, Val(req.payload.mailbox),
                              req.payload.history_id)
       IN  /\ cursor' = res.cursor
           /\ \E log_ok \in BOOLEAN :
                runs' = [runs EXCEPT ![r] =
                   IF ~log_ok
                   THEN [LogFailed(@)
                           EXCEPT !.pc = "fail", !.error = Some(LogErrorText),
                                  !.calls = @ \cup {"try_advance"}]
                   ELSE [Finished(@, "ok")
                           EXCEPT !.calls = @ \cup {"try_advance"}]]
    /\ UNCHANGED <<now, storeVars, chist, shadow, failures, probe,
                   external, artifacts>>

\* the except block: mark failed, log, re-raise
Fail(r) ==
    /\ runs[r].pc = "fail"
    /\ LET run == runs[r]
           key == Val(run.key)
       IN  /\ idem' = [idem EXCEPT ![key] =
                          mark_failed(@, ClaimOwner(run), run.error)]
           /\ runs' = [runs EXCEPT ![r] =
                  [Finished(@, "500") EXCEPT !.calls = @ \cup {"mark_failed"}]]
    /\ UNCHANGED <<now, hist, completions, cursorVars, shadow, failures,
                   probe, external, artifacts>>

\* time passes
Tick ==
    /\ now + TickStep <= MaxTime
    /\ now' = now + TickStep
    /\ UNCHANGED <<storeVars, cursorVars, pipeVars, probe, external>>

InitBase ==
    /\ now = 0
    /\ idem = [k \in Keys |-> NoRow]
    /\ hist = [k \in Keys |-> <<>>]
    /\ completions = [k \in Keys |-> {}]
    /\ cursor = [m \in Mailboxes |-> NoCursorRow]
    /\ chist = None
    /\ shadow \in BOOLEAN
    /\ runs = [r \in Runs |-> IdleRun]
    /\ artifacts = [e \in EventIds |-> None]
    /\ failures = <<>>
    /\ probe = None
    /\ documents = [k \in Keys |-> NoRow]

\* the process starts with a consistent routing configuration in place
Init == InitBase /\ routing_file = DefaultRoutingFile

NextStore ==
    \/ \E k \in StoreKeys, e \in StoreEvents, o \in Owners : TryClaimCall(k, e, o)
    \/ \E k \in StoreKeys, o \in Owners : MarkCompletedCall(k, o)
    \/ \E k \in StoreKeys, o \in Owners, err \in ErrorArgs : MarkFailedCall(k, o, err)
    \/ \E k \in StoreKeys, e \in StoreEvents : SetCall(k, e)
    \/ \E k \in StoreKeys : GetCall(k)
    \/ Tick

\* the store interfaces on their own are not run in shadow mode
InitStores == Init /\ shadow = FALSE

SpecStore == InitStores /\ [][NextStore]_vars

NextCursor ==
    \/ \E m \in MailboxArgs, h \in HistoryIdArgs : TryAdvanceCall(m, h)
    \/ \E m \in MailboxArgs, h \in HistoryIdArgs : CheckLateCall(m, h)
    \/ \E m \in MailboxArgs : GetCursorCall(m)

SpecCursor == InitStores /\ [][NextCursor]_vars

Next ==
    \/ \E r \in Runs, req \in ApiRequests, header \in ApiKeyArgs :
          IngestApi(r, req, header)
    \/ \E r \in Runs, greq \in GmailRequests : IngestGmail(r, greq)
    \/ \E r \in Runs : Claim(r)
    \/ \E r \in Runs : DupAct(r)
    \/ \E r \in Runs : NoopComplete(r)
    \/ \E r \in Runs : Act(r)
    \/ \E r \in Runs : Complete(r)
    \/ \E r \in Runs : Advance(r)
    \/ \E r \in Runs : Fail(r)
    \/ Tick

Spec == Init /\ [][Next]_vars

(***************************************************************************)
(* Callers that retry.  A caller whose POST /ingest/api was answered with  *)
(* a server error sends the same request (same header, same body) again;   *)
(* _process_ingest builds a new candidate event for it.  The ids drawn by  *)
(* the new attempt stand in the model under the names of the run: no       *)
(* status, lease or cursor depends on them.                                *)
(***************************************************************************)
Retry(r) ==
    /\ runs[r].pc = "done"
    /\ runs[r].outcome = "500"
    /\ runs[r].key # None
    /\ runs' = [runs EXCEPT ![r] =
                  [IdleRun EXCEPT !.pc = "claim", !.req = runs[r].req,
                                  !.key = runs[r].key,
                                  !.event = Some(candidate_event(
                                                     r, Val(runs[r].req)))]]
    /\ UNCHANGED <<now, storeVars, cursorVars, shadow, failures, probe,
                   external, artifacts>>

\* the requests of the retrying callers: the support requests of source
\* "api", sent with their Idempotency-Key
RetryRequests == { req \in ApiRequests : req.source = "api" }

NextRetry ==
    \/ \E r \in Runs, req \in RetryRequests, k \in ApiKeys :
          IngestApi(r, req, Some(k))
    \/ \E r \in Runs : Claim(r)
    \/ \E r \in Runs : DupAct(r)
    \/ \E r \in Runs : Act(r)
    \/ \E r \in Runs : Complete(r)
    \/ \E r \in Runs : Fail(r)
    \/ \E r \in Runs : Retry(r)
    \/ Tick

\* Every request that was accepted keeps taking its steps, every caller
\* answered with a server error retries, and neither the draft-file write
\* nor the log-file append fails forever: a step that is attempted again
\* and again eventually goes through without an exception.
RetryFairness ==
    \A r \in Runs :
        /\ WF_vars(Claim(r)) /\ WF_vars(DupAct(r)) /\ WF_vars(Act(r))
        /\ WF_vars(Complete(r)) /\ WF_vars(Fail(r)) /\ WF_vars(Retry(r))
        /\ SF_vars(Claim(r) /\ runs'[r].pc # "done")
        /\ SF_vars(Act(r) /\ runs'[r].pc = "complete")
        /\ SF_vars(Complete(r) /\ runs'[r].pc # "fail")

SpecRetry == InitStores /\ [][NextRetry]_vars /\ RetryFairness

(***************************************************************************)
(* Properties of the idempotency store.                                    *)
(***************************************************************************)
\* the last call made on key k, and the one before it
HasLast(k) == Len(hist[k]) >= 1
LastCall(k) == hist[k][Len(hist[k])]
HasTwo(k) == Len(hist[k]) = 2
FirstOfTwo(k) == hist[k][1]

\* a row nobody holds: no row, failed, or claimed with the lease run out
Open(row, t) ==
    \/ row.status \in {"absent", "failed"}
    \/ row.status = "claimed" /\ (row.lease_until = None \/ Val(row.lease_until) <= t)

\* C1 (idempotency exclusivity): of two try_claim calls made one after the
\* other on a key by distinct owners, the second before the lease granted by
\* the first runs out, the first (finding the key open) is answered
\* claimed=true and the second claimed=false, status "claimed", with the
\* owner_id of the first.
C1_Exclusivity ==
    \A k \in Keys :
        HasTwo(k) =>
            LET a == FirstOfTwo(k)
                b == LastCall(k)
            IN  (/\ a.op = "try_claim" /\ b.op = "try_claim"
                 /\ a.owner # b.owner
                 /\ Open(a.pre, a.at)
                 /\ b.at < a.at + LeaseSeconds)
                => /\ a.ret.claimed
                   /\ ~b.ret.claimed
                   /\ b.ret.status = "claimed"
                   /\ b.ret.owner_id = Some(a.owner)

C1_Witness ==
    \E k \in Keys :
        /\ HasTwo(k)
        /\ FirstOfTwo(k).op = "try_claim" /\ LastCall(k).op = "try_claim"
        /\ FirstOfTwo(k).owner # LastCall(k).owner
        /\ Open(FirstOfTwo(k).pre, FirstOfTwo(k).at)
        /\ LastCall(k).at > FirstOfTwo(k).at
        /\ LastCall(k).at < FirstOfTwo(k).at + LeaseSeconds
        /\ ~LastCall(k).ret.claimed

\* C2 (completion is terminal at the store): once mark_completed has updated
\* the row of a key, every later try_claim on the key is answered
\* claimed=false, status "completed".
C2_CompletedTerminal ==
    \A k \in Keys :
        (completions[k] # {} /\ HasLast(k) /\ LastCall(k).op = "try_claim")
        => /\ ~LastCall(k).ret.claimed
           /\ LastCall(k).ret.status = "completed"

\* C6 (only the lease holder may complete or fail a key): a mark_completed or
\* mark_failed by an owner other than the holder of an unexpired lease leaves
\* the key's status and owner as they were.
C6_OnlyHolderMarks ==
    \A k \in Keys :
        HasLast(k) =>
            LET c == LastCall(k)
            IN  (/\ c.op \in {"mark_completed", "mark_failed"}
                 /\ c.pre.status = "claimed"
                 /\ Val(c.pre.lease_until) > c.at
                 /\ c.pre.owner_id # Some(c.owner))
                => /\ c.post.status = c.pre.status
                   /\ c.post.owner_id = c.pre.owner_id

\* C7 (failure enables reclaim): the try_claim that follows a mark_failed of
\* a claimed key, made by another owner, is answered claimed=true, status
\* "claimed", owner_id the new owner, also while the lease of the failed
\* claim would still be running.
C7_FailedReclaim ==
    \A k \in Keys :
        HasTwo(k) =>
            LET a == FirstOfTwo(k)
                b == LastCall(k)
            IN  (/\ a.op = "mark_failed" /\ a.pre.status = "claimed"
                 /\ b.op = "try_claim" /\ b.owner # a.owner)
                => /\ b.ret.claimed
                   /\ b.ret.status = "claimed"
                   /\ b.ret.owner_id = Some(b.owner)
                   /\ b.post.status = "claimed"
                   /\ b.post.owner_id = Some(b.owner)

C7_Witness ==
    \E k \in Keys :
        /\ HasTwo(k)
        /\ FirstOfTwo(k).op = "mark_failed"
        /\ FirstOfTwo(k).pre.status = "claimed"
        /\ LastCall(k).op = "try_claim"
        /\ LastCall(k).owner # FirstOfTwo(k).owner
        /\ LastCall(k).at < Val(FirstOfTwo(k).pre.lease_until)
        /\ LastCall(k).ret.claimed

\* C8 (lease takeover): on a key in status claimed, a try_claim made while
\* the stored lease expiry is in the future is never answered claimed=true;
\* one made when the expiry has been reached or passed is answered
\* claimed=true with the new owner and a new lease, which the row then holds.
C8_LeaseTakeover ==
    \A k \in Keys :
        HasLast(k) =>
            LET c == LastCall(k)
            IN  (c.op = "try_claim" /\ c.pre.status = "claimed")
                => /\ Val(c.pre.lease_until) > c.at
                        => /\ ~c.ret.claimed
                           /\ c.post = c.pre
                   /\ Val(c.pre.lease_until) <= c.at
                        => /\ c.ret.claimed
                           /\ c.ret.owner_id = Some(c.owner)
                           /\ c.ret.lease_until = Some(c.at + LeaseSeconds)
                           /\ c.post.status = "claimed"
                           /\ c.post.owner_id = Some(c.owner)
                           /\ c.post.lease_until = Some(c.at + LeaseSeconds)

C8_Witness ==
    \E k \in Keys :
        /\ HasLast(k)
        /\ LastCall(k).op = "try_claim"
        /\ LastCall(k).pre.status = "claimed"
        /\ Val(LastCall(k).pre.lease_until) <= LastCall(k).at
        /\ LastCall(k).pre.owner_id # Some(LastCall(k).owner)
        /\ LastCall(k).ret.claimed

(***************************************************************************)
(* Properties of the mailbox cursor store.                                 *)
(***************************************************************************)
HasValue(row) == row.exists /\ row.history_id # None

\* C9 (cursor monotonicity): in every step the stored cursor of every
\* mailbox stays or grows, and a try_advance with a value less than the
\* current cursor returns false and leaves the table as it was.
C9_CursorMonotonic ==
    /\ [][\A m \in Mailboxes :
             HasValue(cursor[m])
             => /\ HasValue(cursor'[m])
                /\ Val(cursor'[m].history_id) >= Val(cursor[m].history_id)]_vars
    /\ [](chist # None /\ Val(chist).op = "try_advance"
          => LET c == Val(chist)
                 m == Lower(Strip(c.mailbox))
                 v == _parse_history_id(c.arg)
             IN  (v # None /\ HasValue(c.pre[m])
                  /\ Val(v) < Val(c.pre[m].history_id))
                 => ~c.ret /\ cursor = c.pre)

C9_Witness ==
    /\ chist # None
    /\ Val(chist).op = "try_advance"
    /\ _parse_history_id(Val(chist).arg) # None
    /\ HasValue(Val(chist).pre[Lower(Strip(Val(chist).mailbox))])
    /\ Val(_parse_history_id(Val(chist).arg))
         < Val(Val(chist).pre[Lower(Strip(Val(chist).mailbox))].history_id)
    /\ ~Val(chist).ret

\* C10 (try_advance returns true exactly when it changes the stored state):
\* for an integer value v, with no row it inserts v and returns true; with a
\* row whose value is absent or less than v it stores v and returns true;
\* with a row whose value is v or more it returns false and changes nothing.
\* In every case the result is true exactly when the table changed, and only
\* the row of the (normalised) mailbox can change.
C10_AdvanceResult ==
    (chist # None /\ Val(chist).op = "try_advance")
    => LET c == Val(chist)
           m == Lower(Strip(c.mailbox))
           v == _parse_history_id(c.arg)
       IN  /\ c.ret <=> (cursor # c.pre)
           /\ \A o \in Mailboxes \ {m} : cursor[o] = c.pre[o]
           /\ v # None =>
                /\ ~c.pre[m].exists
                     => c.ret /\ cursor[m] = [exists |-> TRUE, history_id |-> v]
                /\ (c.pre[m].exists
                    /\ (c.pre[m].history_id = None
                        \/ Val(v) > Val(c.pre[m].history_id)))
                     => c.ret /\ cursor[m] = [exists |-> TRUE, history_id |-> v]
                /\ (HasValue(c.pre[m]) /\ Val(v) <= Val(c.pre[m].history_id))
                     => ~c.ret /\ cursor = c.pre

\* an advance to a value equal to the stored one was refused
C10_Witness ==
    /\ chist # None
    /\ Val(chist).op = "try_advance"
    /\ _parse_history_id(Val(chist).arg) # None
    /\ HasValue(Val(chist).pre[Lower(Strip(Val(chist).mailbox))])
    /\ _parse_history_id(Val(chist).arg)
         = Val(chist).pre[Lower(Strip(Val(chist).mailbox))].history_id
    /\ ~Val(chist).ret

\* the cursor value a call found for mailbox m: None without a row
StoredCursor(pre, m) == IF pre[m].exists THEN pre[m].history_id ELSE None

\* C11 (check_late classification): the reason returned by check_late is
\* INVALID_HISTORY_ID exactly when an id was supplied that is not an integer;
\* otherwise NO_INCOMING_HISTORY_ID exactly when none was supplied; otherwise
\* NO_CURSOR exactly when the mailbox has no stored cursor; otherwise
\* BEHIND_CURSOR, AT_CURSOR or OK as the incoming id is less than, equal to
\* or greater than the cursor.  is_late is true only for BEHIND_CURSOR, and
\* the call changes nothing.
C11_CheckLateClassification ==
    (chist # None /\ Val(chist).op = "check_late")
    => LET c == Val(chist)
           m == Lower(Strip(c.mailbox))
           v == _parse_history_id(c.arg)
           current == StoredCursor(c.pre, m)
           supplied == c.arg # None
           reason == c.ret.reason
       IN  /\ cursor = c.pre
           /\ reason \in {"INVALID_HISTORY_ID", "NO_INCOMING_HISTORY_ID",
                          "NO_CURSOR", "BEHIND_CURSOR", "AT_CURSOR", "OK"}
           /\ (reason = "INVALID_HISTORY_ID") <=> (supplied /\ v = None)
           /\ (reason = "NO_INCOMING_HISTORY_ID") <=> ~supplied
           /\ (reason = "NO_CURSOR") <=> (v # None /\ current = None)
           /\ (reason = "BEHIND_CURSOR")
                <=> (v # None /\ current # None /\ Val(v) < Val(current))
           /\ (reason = "AT_CURSOR")
                <=> (v # None /\ current # None /\ Val(v) = Val(current))
           /\ (reason = "OK")
                <=> (v # None /\ current # None /\ Val(v) > Val(current))
           /\ c.ret.is_late <=> (reason = "BEHIND_CURSOR")
           /\ c.ret.mailbox = m
           /\ c.ret.current_history_id = current
           /\ reason # "INVALID_HISTORY_ID" => c.ret.incoming_history_id = v

\* check_late found the incoming id equal to the stored cursor
C11_Witness ==
    /\ chist # None
    /\ Val(chist).op = "check_late"
    /\ Val(chist).ret.reason = "AT_CURSOR"
    /\ ~Val(chist).ret.is_late
    /\ Val(chist).ret.current_history_id # None

(***************************************************************************)
(* Properties of the pipeline.                                             *)
(***************************************************************************)
\* the runs working on key k
RunsOn(k) == { r \in Runs : runs[r].key = Some(k) }

\* a run that was answered claimed=true and has neither marked its key
\* completed or failed nor ended
Processing(r) ==
    /\ runs[r].pc # "done"
    /\ runs[r].claim # None
    /\ Val(runs[r].claim).claimed
    /\ "mark_completed" \notin runs[r].calls
    /\ "mark_failed" \notin runs[r].calls

\* C3 (completed is absorbing in the whole system): whatever the runs do, a
\* key whose stored status is completed keeps that status.
C3_CompletedAbsorbing ==
    [][\A k \in Keys :
          idem[k].status = "completed" => idem'[k].status = "completed"]_vars

\* C4 (at most one successful completion per key): at most one run performs
\* mark_completed for a key.
C4_OneCompletion ==
    \A k \in Keys :
        Cardinality({ r \in RunsOn(k) : "mark_completed" \in runs[r].calls }) <= 1

\* C5 (at most one lease holder at a time): for each key at most one run
\* answered claimed=true is between its claim and its mark_completed or
\* mark_failed.
C5_OneHolder ==
    \A k \in Keys :
        Cardinality({ r \in RunsOn(k) : Processing(r) }) <= 1

\* a run whose try_claim was answered claimed=true / claimed=false
Claimed(r) == runs[r].claim # None /\ Val(runs[r].claim).claimed
NotClaimed(r) == runs[r].claim # None /\ ~Val(runs[r].claim).claimed
\* the request of the run carries is_late_event=true
LateRequest(r) == runs[r].req # None /\ Val(runs[r].req).metadata.is_late_event
Ended(r) == runs[r].pc = "done"

\* C12 (late events never trigger actions): a run that wins the claim for an
\* event with is_late_event=true produces route NOOP_LATE_EVENT, calls neither
\* the Actuator nor try_advance, and has marked its key completed when it
\* ends.
C12_LateNoop ==
    \A r \in Runs :
        (Claimed(r) /\ LateRequest(r))
        => /\ "execute_decision" \notin runs[r].calls
           /\ "try_advance" \notin runs[r].calls
           /\ Ended(r) => /\ runs[r].decision # None
                          /\ Val(runs[r].decision).route = "NOOP_LATE_EVENT"
                          /\ "mark_completed" \in runs[r].calls

\* C13 (shadow mode on the claimed path): with SHADOW_MODE truthy, a run that
\* wins the claim for a non-late Gmail-sourced event calls neither the
\* Actuator nor try_advance, and when it ends it has computed a routing
\* Decision for its event and marked its key completed.
C13_ShadowClaimed ==
    \A r \in Runs :
        (/\ shadow /\ Claimed(r) /\ ~LateRequest(r)
         /\ Val(runs[r].req).source = "gmail")
        => /\ "execute_decision" \notin runs[r].calls
           /\ "try_advance" \notin runs[r].calls
           /\ Ended(r)
                => /\ runs[r].decision # None
                   /\ Val(runs[r].decision).event_id = Val(runs[r].event).event_id
                   /\ Val(runs[r].decision).route
                         \in {"ESCALATE_HUMAN", "REQUEST_MORE_INFO",
                              "CREATE_DRAFT_TICKET"}
                   /\ "mark_completed" \in runs[r].calls

\* C14 (shadow mode is side-effect free on every path): while SHADOW_MODE is
\* truthy no run, claimed or duplicate, calls the Actuator or try_advance, no
\* draft artifact is written and no cursor is stored.
C14_ShadowNoSideEffects ==
    shadow
    => /\ \A r \in Runs : /\ "execute_decision" \notin runs[r].calls
                          /\ "try_advance" \notin runs[r].calls
       /\ \A e \in EventIds : artifacts[e] = None
       /\ \A m \in Mailboxes : ~cursor[m].exists

\* C15 (cursor advance is gated on completion): a run calls try_advance only
\* when it holds the claim, its event is not late, shadow mode is off, its
\* Actuator call returned (executed or noop), its mark_completed was issued
\* before, and its request has source "gmail" with a non-empty mailbox and
\* history id in the payload; the cursor table changes in no other step.
C15_AdvanceGated ==
    /\ [](\A r \in Runs :
            "try_advance" \in runs[r].calls
            => /\ Claimed(r) /\ ~LateRequest(r) /\ ~shadow
               /\ runs[r].action \in {Some("executed"), Some("noop")}
               /\ "mark_completed" \in runs[r].calls
               /\ "mark_failed" \in runs[r].calls => runs[r].pc = "done"
               /\ Val(runs[r].req).source = "gmail"
               /\ Val(runs[r].req).payload.mailbox \notin {None, Some(<<>>)}
               /\ Val(runs[r].req).payload.history_id \notin {None, Some(<<>>)})
    /\ [][/\ \A r \in Runs :
               ("try_advance" \in runs'[r].calls
                /\ "try_advance" \notin runs[r].calls)
               => /\ "execute_decision" \in runs[r].calls
                  /\ "mark_completed" \in runs[r].calls
                  /\ "mark_failed" \notin runs[r].calls
          /\ cursor' # cursor
               => \E r \in Runs : /\ "try_advance" \in runs'[r].calls
                                  /\ "try_advance" \notin runs[r].calls]_vars

\* a run advanced the cursor of its mailbox
C15_Witness ==
    \E r \in Runs :
        /\ "try_advance" \in runs[r].calls
        /\ runs[r].outcome = "ok"
        /\ cursor[Lower(Strip(Val(Val(runs[r].req).payload.mailbox)))].exists

\* the Actuator raised in the Act step of run r on the primary path
ActFailed(r) == Claimed(r) /\ runs[r].action = Some("failed")

\* C16 (primary-path Act failure): when the Actuator raises in a run that
\* holds the claim, the run calls neither mark_completed nor try_advance, and
\* ends with the error raised to the caller after a mark_failed that leaves
\* the key failed with the owner id of the run's claim and the error text.
C16_ActFailure ==
    /\ [](\A r \in Runs :
            ActFailed(r)
            => /\ "mark_completed" \notin runs[r].calls
               /\ "try_advance" \notin runs[r].calls
               /\ runs[r].pc \in {"fail", "done"}
               /\ runs[r].error = Some(IoErrorText)
               /\ Ended(r) => /\ "mark_failed" \in runs[r].calls
                              /\ runs[r].outcome = "500")
    /\ [][\A r \in Runs :
             (ActFailed(r) /\ "mark_failed" \in runs'[r].calls
              /\ "mark_failed" \notin runs[r].calls)
             => LET k == Val(runs[r].key)
                IN  /\ idem'[k].status = "failed"
                    /\ idem'[k].owner_id = Val(runs[r].claim).owner_id
                    /\ idem'[k].owner_id = Some(WorkerId(r))
                    /\ idem'[k].last_error = Some(IoErrorText)]_vars

\* a run whose Actuator call raised has ended, its key left failed
C16_Witness ==
    \E r \in Runs :
        /\ ActFailed(r) /\ Ended(r)
        /\ idem[Val(runs[r].key)].status = "failed"
        /\ idem[Val(runs[r].key)].owner_id = Some(WorkerId(r))

\* C18 (duplicate path response): a run whose try_claim was answered
\* claimed=false answers with the event stored for the key, not with its own
\* candidate, and with a Decision computed from that event; and when the
\* Actuator raises on this path the request still succeeds.
C18_DuplicateResponse ==
    \A r \in Runs :
        NotClaimed(r)
        => /\ runs[r].decision # None
                => /\ runs[r].event = Val(runs[r].claim).existing_event
                   /\ Val(runs[r].event).event_id # EventId(r)
                   /\ Val(runs[r].decision)
                         = route_event(Val(runs[r].event), DecisionId(r))
           /\ (Ended(r) /\ runs[r].action = Some("failed"))
                => runs[r].outcome = "ok"

\* C19 (same key returns same event): all the runs that answered a request
\* for one idempotency key answered with the same event_id.
C19_SameEvent ==
    \A k \in Keys : \A r1, r2 \in RunsOn(k) :
        (runs[r1].outcome = "ok" /\ runs[r2].outcome = "ok")
        => Val(runs[r1].event).event_id = Val(runs[r2].event).event_id

\* the request of run r came without an Idempotency-Key (absent or empty)
MissingKey(r) == Ended(r) /\ runs[r].req # None /\ runs[r].key = None

\* C20 (missing idempotency key): a request with an absent or empty key fails
\* with 400 "Missing Idempotency-Key header" without any try_claim, Actuator
\* call or cursor access, and the step leaves both stores and the artifacts
\* as they were.
C20_MissingKey ==
    /\ [](\A r \in Runs :
            MissingKey(r)
            => /\ runs[r].outcome = MissingKeyDetail
               /\ runs[r].claim = None
               /\ runs[r].calls = {})
    /\ [][\A r \in Runs :
             (~MissingKey(r) /\ MissingKey(r)')
             => /\ idem' = idem
                /\ cursor' = cursor
                /\ artifacts' = artifacts]_vars

\* C17 (retry after failure makes progress): a try_claim made by a request
\* that finds its key failed is granted; and once a primary-path run for a
\* key has ended in an Act failure, with callers that retry and an Actuator
\* that eventually succeeds the key eventually reaches status completed.
C17_RetryProgress ==
    /\ [][\A r \in Runs :
             (/\ runs[r].pc = "claim" /\ runs'[r].pc # "claim"
              /\ idem[Val(runs[r].key)].status = "failed")
             => /\ Val(runs'[r].claim).claimed
                /\ idem'[Val(runs[r].key)].status = "claimed"]_vars
    /\ \A k \in ApiKeys :
          (\E r \in RunsOn(k) : ActFailed(r) /\ Ended(r))
             ~> (idem[k].status = "completed")


\* ---------------------------------------------------------------------------
\* The failure sink (core/failure_sink.py)
\* ---------------------------------------------------------------------------

\* make_failure(stage, error_code, message, context) at time t: a
\* FailureRecord; an absent context becomes the empty map
make_failure(stage, error_code, message, context, t) ==
    [timestamp |-> t, stage |-> stage, error_code |-> error_code,
     message |-> message,
     context |-> IF context = None THEN <<>> ELSE Val(context)]

\* JsonlFileFailureSink.notify(record): one more line at the end of the file
notify(file, record) == Append(file, record)

\* Runs that end in one of the failures the taxonomy names
GmailRejected(r) ==
    /\ Ended(r)
    /\ runs[r].trigger # None
    /\ _gmail_idempotency_key(Val(runs[r].trigger)) = None
PrimaryActFailed(r) == Ended(r) /\ ActFailed(r)

\* the failure file holds a record of this stage and error code
Recorded(stage, error_code) ==
    \E i \in DOMAIN failures :
        failures[i].stage = stage /\ failures[i].error_code = error_code

\* C21 (no silent failures): a run that rejects for a missing idempotency
\* key, rejects a Gmail trigger with neither id, or ends in a primary-path Act
\* failure leaves at least one failure-sink record with the stage and the
\* error code of the taxonomy.
C21_NoSilentFailures ==
    \A r \in Runs :
        /\ MissingKey(r) =>
              Recorded("ingest", "INGEST_REJECTED_MISSING_IDEMPOTENCY_KEY")
        /\ GmailRejected(r) =>
              Recorded("ingest", "INGEST_REJECTED_MISSING_GMAIL_IDS")
        /\ PrimaryActFailed(r) =>
              Recorded("act", "ACT_FAILED_SINGLE_PROCESSOR")


(***************************************************************************)
(* The stateless units called on their own: each call leaves its           *)
(* arguments and its result in probe.                                      *)
(***************************************************************************)
unitFrame == <<now, storeVars, cursorVars, shadow, runs, external>>

\* GmailIngestRequest values: mailbox with and without padding and capitals,
\* each id absent, empty or set, and two trace ids
GmailTriggers ==
    [mailbox : {<<"a">>, <<"A", " ">>, <<" ", "b">>},
     message_id : {None, Some(<<>>), Some(<<"m", "1">>)},
     history_id : {None, Some(<<>>), Some(<<"3">>)},
     trace_id : {"t1", "t2"}]

GmailKeyCall(greq) ==
    /\ probe' = Some([op |-> "_gmail_idempotency_key", greq |-> greq,
                      out |-> _gmail_idempotency_key(greq)])
    /\ UNCHANGED <<unitFrame, artifacts, failures>>

Probed(op) == probe # None /\ Val(probe).op = op
\* an optional id that is set and not the empty string
HasId(o) == o # None /\ Len(Val(o)) > 0

\* C22 (Gmail idempotency key derivation): the key is a function of the
\* lower-cased trimmed mailbox, the message id and the history id; with a
\* message id it has the message-id form whatever the history id, with only a
\* history id the history-id form, and with neither the derivation rejects
\* with the Bad-Request error.
C22_GmailKeyDerivation ==
    /\ [](Probed("_gmail_idempotency_key") =>
            LET g == Val(probe).greq
                out == Val(probe).out
                mailbox == Lower(Strip(g.mailbox))
            IN  /\ HasId(g.message_id) =>
                      out = Some(<<"gmail:mailbox=", mailbox,
                                   ":message_id=", Val(g.message_id)>>)
                /\ (~HasId(g.message_id) /\ HasId(g.history_id)) =>
                      out = Some(<<"gmail:mailbox=", mailbox,
                                   ":history_id=", Val(g.history_id)>>)
                /\ (~HasId(g.message_id) /\ ~HasId(g.history_id)) =>
                      out = None)
    /\ [][(/\ Probed("_gmail_idempotency_key")
           /\ Probed("_gmail_idempotency_key")'
           /\ Lower(Strip(Val(probe).greq.mailbox))
                = Lower(Strip(Val(probe').greq.mailbox))
           /\ Val(probe).greq.message_id = Val(probe').greq.message_id
           /\ Val(probe).greq.history_id = Val(probe').greq.history_id)
          => Val(probe').out = Val(probe).out]_vars

\* a padded capital mailbox with both ids gets the message-id key
C22_Witness ==
    /\ Probed("_gmail_idempotency_key")
    /\ Val(probe).greq.mailbox = <<"A", " ">>
    /\ HasId(Val(probe).greq.message_id)
    /\ HasId(Val(probe).greq.history_id)
    /\ Val(probe).out = Some(<<"gmail:mailbox=", <<"a">>, ":message_id=",
                               <<"m", "1">> >>)

\* the Gmail trigger of run r carries neither a message id nor a history id
NeitherId(r) ==
    /\ runs[r].trigger # None
    /\ ~HasId(Val(runs[r].trigger).message_id)
    /\ ~HasId(Val(runs[r].trigger).history_id)

TextBreach ==
    <<"s", "e", "c", "u", "r", "i", "t", "y", " ",
      "b", "r", "e", "a", "c", "h">>
TextBreachInside == <<"A", " ">> \o TextBreach \o <<"!">>
TextPassword == <<"P", "a", "s", "s", "w", "o", "r", "d">>
RouterTexts ==
    {None, Some(TextPrinter), Some(TextBreach), Some(TextBreachInside),
     Some(TextPassword)}

\* What an Event carries besides its late flag, late reason and payload:
\* source, actor, event_type, timestamp and metadata (which may repeat or
\* contradict the late flag)
Envelopes ==
    { [source |-> "api", actor |-> Some("u1"),
       event_type |-> "support_request", timestamp |-> 0,
       metadata |-> NoMetadata],
      [source |-> "gmail", actor |-> None,
       event_type |-> "gmail_ingest", timestamp |-> 60,
       metadata |-> [is_late_event |-> TRUE,
                     late_reason |-> Some(<<"BEHIND_CURSOR">>)]],
      [source |-> "gmail", actor |-> None,
       event_type |-> "gmail_ingest", timestamp |-> 60,
       metadata |-> NoMetadata] }

\* Events handed to the router
RouterEvents ==
    { [event_id |-> "evt-u", source |-> env.source, actor |-> env.actor,
       event_type |-> env.event_type, timestamp |-> env.timestamp,
       metadata |-> env.metadata,
       payload |-> Payload(text, urgency, None, None, None),
       is_late_event |-> late, late_reason |-> late_reason] :
        env \in Envelopes, text \in RouterTexts,
        urgency \in {None, Some(<<>>), Some(TextHigh)},
        late \in BOOLEAN,
        late_reason \in {None, Some(<<"BEHIND_CURSOR">>)} }

RouteCall(event) ==
    /\ probe' = Some([op |-> "route_event", event |-> event,
                      out |-> route_event(event, "dec-u")])
    /\ UNCHANGED <<unitFrame, artifacts, failures>>

\* the lower-cased text of the event holds one of the security keywords
HasSecurityKeyword(event) ==
    \E k \in security_keywords : Contains(Lower(_get_text(event)), k)
\* the payload has no urgency, or an empty one
LacksUrgency(event) ==
    event.payload.urgency = None \/ Val(event.payload.urgency) = <<>>
\* the text of the event contains "security breach"
HasSecurityBreach(event) == Contains(_get_text(event), TextBreach)

\* C24 (router rule order): the late rule is evaluated before the security
\* keywords, these before the missing urgency, and this before the default,
\* and the first rule that matches decides; a late event routes to
\* NOOP_LATE_EVENT with risk low even with a security keyword in its text or
\* without urgency.
C24_RuleOrder ==
    Probed("route_event") =>
        LET e == Val(probe).event
            d == Val(probe).out
        IN  /\ e.is_late_event =>
                  d.route = "NOOP_LATE_EVENT" /\ d.risk_level = "low"
            /\ (~e.is_late_event /\ HasSecurityKeyword(e)) =>
                  d.route = "ESCALATE_HUMAN"
            /\ (~e.is_late_event /\ ~HasSecurityKeyword(e)
                  /\ LacksUrgency(e)) =>
                  d.route = "REQUEST_MORE_INFO"
            /\ (~e.is_late_event /\ ~HasSecurityKeyword(e)
                  /\ ~LacksUrgency(e)) =>
                  d.route = "CREATE_DRAFT_TICKET"

\* a late event with a security keyword and no urgency was routed to the
\* late no-op
C24_Witness ==
    /\ Probed("route_event")
    /\ Val(probe).event.is_late_event
    /\ HasSecurityKeyword(Val(probe).event)
    /\ LacksUrgency(Val(probe).event)
    /\ Val(probe).out.route = "NOOP_LATE_EVENT"

\* C25 as stated (security keyword): an event whose text contains
\* "security breach" always routes to ESCALATE_HUMAN with risk high.
C25_SecurityBreachAlways ==
    (Probed("route_event") /\ HasSecurityBreach(Val(probe).event))
    => /\ Val(probe).out.route = "ESCALATE_HUMAN"
       /\ Val(probe).out.risk_level = "high"

\* C25 as amended: an event that is not late and whose text contains
\* "security breach" routes to ESCALATE_HUMAN with risk high, whatever its
\* other payload fields (urgency present or not).
C25_SecurityBreachNotLate ==
    (/\ Probed("route_event")
     /\ HasSecurityBreach(Val(probe).event)
     /\ ~Val(probe).event.is_late_event)
    => /\ Val(probe).out.route = "ESCALATE_HUMAN"
       /\ Val(probe).out.risk_level = "high"

\* "security breach" inside a sentence, no urgency, not late: escalated
C25_Witness ==
    /\ Probed("route_event")
    /\ Val(probe).event.payload.text = Some(TextBreachInside)
    /\ Val(probe).event.payload.urgency = None
    /\ ~Val(probe).event.is_late_event
    /\ Val(probe).out.route = "ESCALATE_HUMAN"
    /\ Val(probe).out.risk_level = "high"

\* C26 as stated (missing urgency): an event whose payload lacks a truthy
\* urgency and whose text has no security keyword always routes to
\* REQUEST_MORE_INFO with risk medium and missing_fields = ["urgency"] in the
\* proposed action.
C26_MissingUrgencyAlways ==
    (/\ Probed("route_event")
     /\ LacksUrgency(Val(probe).event)
     /\ ~HasSecurityKeyword(Val(probe).event))
    => /\ Val(probe).out.route = "REQUEST_MORE_INFO"
       /\ Val(probe).out.risk_level = "medium"
       /\ "missing_fields" \in DOMAIN Val(probe).out.proposed_action
       /\ Val(probe).out.proposed_action.missing_fields = <<"urgency">>

\* C26 as amended: an event that is not late, whose payload lacks a truthy
\* urgency and whose text has no security keyword routes to
\* REQUEST_MORE_INFO with risk medium and missing_fields = ["urgency"] in the
\* proposed action.
C26_MissingUrgencyNotLate ==
    (/\ Probed("route_event")
     /\ LacksUrgency(Val(probe).event)
     /\ ~HasSecurityKeyword(Val(probe).event)
     /\ ~Val(probe).event.is_late_event)
    => /\ Val(probe).out.route = "REQUEST_MORE_INFO"
       /\ Val(probe).out.risk_level = "medium"
       /\ "missing_fields" \in DOMAIN Val(probe).out.proposed_action
       /\ Val(probe).out.proposed_action.missing_fields = <<"urgency">>

\* a plain request with an empty urgency, not late: more information asked
C26_Witness ==
    /\ Probed("route_event")
    /\ Val(probe).event.payload.text = Some(TextPrinter)
    /\ Val(probe).event.payload.urgency = Some(<<>>)
    /\ ~Val(probe).event.is_late_event
    /\ Val(probe).out.route = "REQUEST_MORE_INFO"
    /\ Val(probe).out.proposed_action.missing_fields = <<"urgency">>

\* two router calls, one after the other, on events that agree on the late
\* flag, the late reason and the payload
SameRouterInputs ==
    /\ Probed("route_event")
    /\ Probed("route_event")'
    /\ Val(probe).event.is_late_event = Val(probe').event.is_late_event
    /\ Val(probe).event.late_reason = Val(probe').event.late_reason
    /\ Val(probe).event.payload = Val(probe').event.payload

\* C27 (router noninterference): two events that agree on is_late_event,
\* late_reason and payload get the same route, risk_level, reason and
\* proposed_action, whatever their metadata, source, actor, event_type and
\* timestamp.
C27_Noninterference ==
    [][SameRouterInputs
       => /\ Val(probe').out.route = Val(probe).out.route
          /\ Val(probe').out.risk_level = Val(probe).out.risk_level
          /\ Val(probe').out.reason = Val(probe).out.reason
          /\ Val(probe').out.proposed_action
               = Val(probe).out.proposed_action]_vars

\* the router decided an event that is not late although its metadata says
\* late, and got a draft ticket
C27_Witness ==
    /\ Probed("route_event")
    /\ ~Val(probe).event.is_late_event
    /\ Val(probe).event.metadata.is_late_event
    /\ Val(probe).event.source = "gmail"
    /\ Val(probe).out.route = "CREATE_DRAFT_TICKET"

\* Events handed to the Actuator: one per event id
ActEvents ==
    { [event_id |-> id, source |-> "api", actor |-> Some("u1"),
       event_type |-> "support_request", timestamp |-> 0,
       metadata |-> NoMetadata,
       payload |-> Payload(Some(TextPrinter), Some(TextHigh),
                           None, None, None),
       is_late_event |-> FALSE, late_reason |-> None] : id \in EventIds }
\* Events the Decisions handed to the Actuator were made for: a late one, one
\* with a security keyword, one without urgency, and two that get a draft
DecidedEvents ==
    { q \in RouterEvents :
        /\ q.source = "api"
        /\ q.late_reason = None
        /\ \/ q.is_late_event /\ q.payload.text = None
                              /\ q.payload.urgency = None
           \/ ~q.is_late_event /\ q.payload.text = Some(TextBreach)
                               /\ q.payload.urgency = None
           \/ ~q.is_late_event /\ q.payload.text = Some(TextPrinter)
                               /\ q.payload.urgency = None
           \/ ~q.is_late_event /\ q.payload.text \in {None, Some(TextPrinter)}
                               /\ q.payload.urgency = Some(TextHigh) }
\* Decisions handed to the Actuator: what the router returns for these
\* events, under two decision ids
ActDecisions ==
    { route_event(e, d) : e \in DecidedEvents, d \in {"dec-u", "dec-v"} }

\* execute_decision(event, decision); any Decision may come with any Event
ExecuteCall(event, decision, io) ==
    LET act == execute_decision(artifacts, event, decision, io)
    IN  /\ artifacts' = act.files
        /\ probe' = Some([op |-> "execute_decision", event |-> event,
                          decision |-> decision, before |-> artifacts,
                          out |-> [raised |-> act.raised,
                                   status |-> act.status,
                                   artifact_path |-> act.artifact_path]])
        /\ UNCHANGED <<unitFrame, failures>>

NextActuator ==
    \E event \in ActEvents, decision \in ActDecisions, io \in IoOutcomes :
        ExecuteCall(event, decision, io)

SpecActuator == Init /\ [][NextActuator]_vars

\* the draft file of an event holds the fields of this Decision
HoldsDecision(file, event_id, decision) ==
    /\ file # None
    /\ Val(file) # TruncatedFile
    /\ Val(file).event_id = event_id
    /\ Val(file).decision_id = decision.decision_id
    /\ Val(file).route = decision.route
    /\ Val(file).risk_level = decision.risk_level
    /\ Val(file).reason = decision.reason
    /\ Val(file).proposed_action = decision.proposed_action

\* C28 (Actuator idempotent artifact writes): execute_decision touches a
\* file only for a CREATE_DRAFT_TICKET decision and then, when it returns,
\* has status executed and the file at the path made from event_id alone
\* holds the fields of this (the latest) decision; a second call for the same
\* event id returns the same path; every other route returns status noop
\* with no path and leaves every file as it was.
C28_ActuatorIdempotent ==
    /\ [](Probed("execute_decision") =>
            LET p == Val(probe)
                id == p.event.event_id
            IN  /\ \A other \in EventIds \ {id} :
                      artifacts[other] = p.before[other]
                /\ p.decision.route # "CREATE_DRAFT_TICKET" =>
                      /\ ~p.out.raised
                      /\ p.out.status = "noop"
                      /\ p.out.artifact_path = None
                      /\ artifacts = p.before
                /\ (p.decision.route = "CREATE_DRAFT_TICKET"
                      /\ ~p.out.raised) =>
                      /\ p.out.status = "executed"
                      /\ p.out.artifact_path =
                           Some(<<"artifacts/drafts/", id,
                                  ".draft_ticket.json">>)
                      /\ HoldsDecision(artifacts[id], id, p.decision))
    /\ [][(/\ Probed("execute_decision")
           /\ Probed("execute_decision")'
           /\ Val(probe).out.status = "executed"
           /\ Val(probe').out.status = "executed"
           /\ Val(probe').event.event_id = Val(probe).event.event_id)
          => Val(probe').out.artifact_path
               = Val(probe).out.artifact_path]_vars

\* a second draft for an event id replaced the first one's fields
C28_Witness ==
    /\ Probed("execute_decision")
    /\ Val(probe).out.status = "executed"
    /\ LET id == Val(probe).event.event_id
       IN  /\ Val(probe).before[id] # None
           /\ Val(Val(probe).before[id]) # TruncatedFile
           /\ Val(probe).before[id] # artifacts[id]
           /\ HoldsDecision(artifacts[id], id, Val(probe).decision)

\* ---------------------------------------------------------------------------
\* The authorization guard (core/auth.py)
\* ---------------------------------------------------------------------------

\* values of the OPS_API_KEY variable (unset, empty, set) and of the
\* X-API-Key header (missing, empty, set)
OpsKeySettings == {None, Some(""), Some("k1"), Some("k2")}
OpsKeyHeaders == {None, Some(""), Some("k1"), Some("k2")}

Http(status, detail) == [status |-> status, detail |-> detail]

\* faulty variant of require_ops_api_key: without a configured key every
\* request is let through
require_ops_api_key_open_when_unset(expected, x_api_key) ==
    IF ~(expected # None /\ Val(expected) # "")
    THEN None
    ELSE IF x_api_key # expected
    THEN Some(Http(403, "Forbidden"))
    ELSE None

\* require_ops_api_key(x_api_key) with OPS_API_KEY = expected: the
\* HTTPException it raises, or None when it returns
require_ops_api_key(expected, x_api_key) ==
    IF ~(expected # None /\ Val(expected) # "")
    THEN Some(Http(500, "OPS_API_KEY not configured"))
    ELSE IF x_api_key # expected
    THEN Some(Http(403, "Forbidden"))
    ELSE None

\* GET /ops/ping: the guard, then {"status": "ok"}
ops_ping(expected, x_api_key) ==
    LET raised == require_ops_api_key(expected, x_api_key)
    IN  IF raised # None THEN Val(raised) ELSE Http(200, "ok")

OpsPingCall(expected, x_api_key) ==
    /\ probe' = Some([op |-> "ops_ping", expected |-> expected,
                      x_api_key |-> x_api_key,
                      out |-> ops_ping(expected, x_api_key)])
    /\ UNCHANGED <<unitFrame, artifacts, failures>>

\* OPS_API_KEY is set to a non-empty value
Configured(expected) == expected \in {Some("k1"), Some("k2")}

\* C29 (the authorization guard fails closed): the ops endpoint answers ok
\* only when OPS_API_KEY is configured non-empty and the X-API-Key header
\* equals it; without a configured key it answers 500 whatever the header;
\* with a key and a missing or different header it answers 403.
C29_AuthFailsClosed ==
    Probed("ops_ping") =>
        LET p == Val(probe)
        IN  /\ p.out.status = 200 <=>
                  (Configured(p.expected) /\ p.x_api_key = p.expected)
            /\ ~Configured(p.expected) => p.out.status = 500
            /\ (Configured(p.expected) /\ p.x_api_key # p.expected) =>
                  p.out.status = 403

\* no key is configured and the header is empty like the setting: 500
C29_Witness ==
    /\ Probed("ops_ping")
    /\ Val(probe).expected = Some("")
    /\ Val(probe).x_api_key = Some("")
    /\ Val(probe).out = Http(500, "OPS_API_KEY not configured")

\* the configuration is loaded once, when the process starts
LoadCall(file) ==
    /\ probe = None
    /\ probe' = Some([op |-> "load_routing_config", file |-> file,
                      out |-> load_routing_config(file)])
    /\ UNCHANGED <<unitFrame, artifacts, failures>>

NextLoader == \E file \in ConfigFiles : LoadCall(file)

SpecLoader == Init /\ [][NextLoader]_vars

\* the document has every required key at the top and in each rule
WellFormed(raw) ==
    /\ raw.version # None
    /\ raw.routes # None
    /\ raw.rules # None =>
          \A i \in DOMAIN Val(raw.rules) :
              /\ Val(raw.rules)[i].rule_id # None
              /\ Val(raw.rules)[i].match_type # None
              /\ Val(raw.rules)[i].route # None
RawRulesOf(raw) == IF raw.rules = None THEN <<>> ELSE Val(raw.rules)
\* some rule of the document names a route that its routes do not list
UndefinedRoute(raw) ==
    \E i \in DOMAIN RawRulesOf(raw) :
        /\ RawRulesOf(raw)[i].route # None
        /\ \/ raw.routes = None
           \/ \A j \in DOMAIN Val(raw.routes) :
                 Val(raw.routes)[j] # Val(RawRulesOf(raw)[i].route)

\* C30 (routing configuration, internal consistency): loading fails whenever
\* some rule names a route that is not in the routes list; a well-formed
\* document whose rules name listed routes only loads, and the configuration
\* returned has the document's version, routes and rules unchanged.
C30_ConfigConsistency ==
    (Probed("load_routing_config") /\ Val(probe).file.kind = "json") =>
        LET raw == Val(probe).file.raw
            out == Val(probe).out
            rules == RawRulesOf(raw)
        IN  /\ UndefinedRoute(raw) => ~out.ok
            /\ (WellFormed(raw) /\ ~UndefinedRoute(raw)) =>
                  /\ out.ok
                  /\ out.cfg.version = Val(raw.version)
                  /\ out.cfg.routes = Val(raw.routes)
                  /\ Len(out.cfg.rules) = Len(rules)
                  /\ \A i \in DOMAIN rules :
                        /\ out.cfg.rules[i].rule_id = Val(rules[i].rule_id)
                        /\ out.cfg.rules[i].match_type
                             = Val(rules[i].match_type)
                        /\ out.cfg.rules[i].field = rules[i].field
                        /\ out.cfg.rules[i].value = rules[i].value
                        /\ out.cfg.rules[i].route = Val(rules[i].route)

\* a well-formed document whose second rule names an undefined route was
\* refused with the ValueError
C30_Witness ==
    /\ Probed("load_routing_config")
    /\ Val(probe).file.kind = "json"
    /\ WellFormed(Val(probe).file.raw)
    /\ Len(RawRulesOf(Val(probe).file.raw)) = 2
    /\ RawRulesOf(Val(probe).file.raw)[1].route = Some("ESCALATE_HUMAN")
    /\ RawRulesOf(Val(probe).file.raw)[2].route = Some("UNDEFINED")
    /\ Val(probe).file.raw.routes = Some(<<"ESCALATE_HUMAN">>)
    /\ ~Val(probe).out.ok
    /\ Val(probe).out.error = "ValueError"

NextUnits ==
    \/ \E greq \in GmailTriggers : GmailKeyCall(greq)
    \/ \E event \in RouterEvents : RouteCall(event)
    \/ \E expected \in OpsKeySettings, x_api_key \in OpsKeyHeaders :
          OpsPingCall(expected, x_api_key)

SpecUnits == Init /\ [][NextUnits]_vars

(***************************************************************************)
(* Startup.  Importing app.main builds the app, the logger and the two     *)
(* stores and nothing else; from then on requests are served, whatever the *)
(* routing configuration path holds.                                       *)
(***************************************************************************)
StartupFiles == {DefaultRoutingFile, InconsistentRoutingFile}

InitStartup == InitBase /\ routing_file \in StartupFiles

SpecStartup == InitStartup /\ [][Next]_vars

\* C31 (startup gate): the routing configuration is loaded and validated
\* before any request is accepted and a failure aborts startup, so no ingest
\* request is processed in a process whose routing configuration fails
\* validation.
C31_StartupGate ==
    \A r \in Runs :
        runs[r].pc # "idle" => load_routing_config(routing_file).ok

\* C32 (logging never aborts the pipeline): a failure to open or append the
\* log file in a log step is swallowed: a run in which a log write failed
\* still ends with the response or error it would have had (never the 500 of
\* the log failure), does not mark its key failed, and when it held the claim
\* has marked the key completed.
C32_LoggingNeverAborts ==
    \A r \in Runs :
        (Ended(r) /\ runs[r].log_failed)
        => /\ runs[r].outcome # "500"
           /\ "mark_failed" \notin runs[r].calls
           /\ Claimed(r) => "mark_completed" \in runs[r].calls

\* C33 (completed and failed are exclusive per run): no run calls both
\* mark_completed and mark_failed for its key; an error raised after
\* mark_completed, by the cursor advance or by a log step, does not get the
\* completed key marked failed.
C33_CompletedFailedExclusive ==
    \A r \in Runs :
        ~("mark_completed" \in runs[r].calls /\ "mark_failed" \in runs[r].calls)

\* the runs on key k that invoked the Actuator
Actors(k) == { r \in RunsOn(k) : "execute_decision" \in runs[r].calls }

\* C34 (one side effect per key): for each idempotency key every Actuator
\* invocation, by whatever run (primary path, duplicate path, after a failure
\* or a lease takeover), is made with the same event_id, so at most one
\* draft-ticket file exists per key.
C34_OneSideEffectPerKey ==
    \A k \in Keys :
        /\ \A r1, r2 \in Actors(k) :
              Val(runs[r1].event).event_id = Val(runs[r2].event).event_id
        /\ Cardinality({ e \in EventIds :
                           /\ artifacts[e] # None
                           /\ \E r \in Actors(k) :
                                 Val(runs[r].event).event_id = e }) <= 1

\* the event run r acts on came in through /ingest/gmail and its history id
\* is strictly behind the cursor now stored for its mailbox
BehindCursor(r) ==
    /\ runs[r].trigger # None
    /\ runs[r].event # None
    /\ LET ev == Val(runs[r].event)
           h == _parse_history_id(ev.payload.history_id)
       IN  /\ Truthy(ev.payload.mailbox)
           /\ h # None
           /\ LET row == cursor[Lower(Strip(Val(ev.payload.mailbox)))]
              IN  HasValue(row) /\ Val(h) < Val(row.history_id)

\* C35 (ordering under concurrent Gmail requests): no run invokes the
\* Actuator for a Gmail event whose history id is strictly behind the stored
\* cursor of its mailbox at the moment the Actuator runs, also when another
\* request advanced the cursor between this run's check_late and its Act.
C35_NoActBehindCursor ==
    [][\A r \in Runs :
         ("execute_decision" \notin runs[r].calls
            /\ "execute_decision" \in runs'[r].calls)
         => ~BehindCursor(r)]_vars

(***************************************************************************)
(* Sequences of try_advance calls on the cursor store; probe keeps, per    *)
(* mailbox, the integer values passed so far, and the last call.           *)
(***************************************************************************)
NothingPassed == [m \in Mailboxes |-> {}]
PassedSoFar == IF probe = None THEN NothingPassed ELSE Val(probe).passed

AdvanceInSequence(m, h) ==
    LET r == try_advance(cursor, m, h)
        new_val == _parse_history_id(h)
        passed == IF new_val = None THEN PassedSoFar
                  ELSE [PassedSoFar EXCEPT ![Lower(Strip(m))] =
                                              @ \cup {Val(new_val)}]
    IN  /\ cursor' = r.cursor
        /\ probe' = Some([op |-> "try_advance", mailbox |-> m, arg |-> h,
                          passed |-> passed])
        /\ UNCHANGED <<now, storeVars, chist, pipeVars, external>>

NextAdvance ==
    \E m \in MailboxArgs, h \in HistoryIdArgs : AdvanceInSequence(m, h)

SpecAdvance == InitStores /\ [][NextAdvance]_vars

\* the greatest element of a non-empty set of integers
Max(S) == CHOOSE x \in S : \A y \in S : y <= x

\* C36 (the cursor equals the maximum): after any sequence of try_advance
\* calls with integer values on a mailbox, in any order, get_cursor returns
\* the greatest of the values passed (and nothing when none was passed).
C36_CursorIsMax ==
    \A m \in MailboxArgs :
        LET passed == PassedSoFar[Lower(Strip(m))]
        IN  get_cursor(cursor, m) =
               IF passed = {} THEN None ELSE Some(Max(passed))

\* 10 and 3 were passed before, the last call passed 1, and the cursor is 10
C36_Witness ==
    /\ Probed("try_advance")
    /\ Val(probe).arg = Some(<<"1">>)
    /\ {1, 3, 10} \subseteq Val(probe).passed[Lower(Strip(Val(probe).mailbox))]
    /\ get_cursor(cursor, <<"a">>) = Some(10)
    /\ Val(probe).mailbox = <<"A", " ">>

(***************************************************************************)
(* Document backend (FirestoreIdempotencyStore), on documents kept in the  *)
(* row shape of the embedded backend. created_at / updated_at are written  *)
(* but never read. A field a document does not hold reads as None          *)
(* (data.get).                                                             *)
(***************************************************************************)
\* try_claim(key, event, lease_seconds, owner_id): the transaction _txn_claim
firestore_try_claim(doc, event, lease_seconds, owner_id, fresh, t) ==
    LET owner == IF IsSome(owner_id) THEN Val(owner_id) ELSE fresh
        lease_until == t + lease_seconds
        claimedDoc == [status |-> "claimed", owner_id |-> Some(owner),
                       lease_until |-> Some(lease_until),
                       event |-> Some(event), last_error |-> None]
        existing_event == doc.event
    IN  IF doc.status = "absent"
        THEN [row |-> claimedDoc,
              result |-> ClaimResult(TRUE, "claimed", Some(owner),
                                     Some(lease_until), None)]
        ELSE IF doc.status = "completed"
        THEN [row |-> doc,
              result |-> ClaimResult(FALSE, "completed", doc.owner_id,
                                     doc.lease_until, existing_event)]
        ELSE IF doc.status = "claimed" /\ ~lease_expired(doc, t)
        THEN [row |-> doc,
              result |-> ClaimResult(FALSE, "claimed", doc.owner_id,
                                     doc.lease_until, existing_event)]
        ELSE [row |-> claimedDoc,
              result |-> ClaimResult(TRUE, "claimed", Some(owner),
                                     Some(lease_until), existing_event)]

\* mark_completed(key, owner_id): set(..., merge=True) writes the four fields
\* into the document and creates it when there is none
firestore_mark_completed(doc, owner_id) ==
    [doc EXCEPT !.status = "completed", !.owner_id = Some(owner_id),
                !.lease_until = None, !.last_error = None]

\* mark_failed(key, owner_id, error): set(..., merge=True), as above
firestore_mark_failed(doc, owner_id, error) ==
    [doc EXCEPT !.status = "failed", !.owner_id = Some(owner_id),
                !.lease_until = None,
                !.last_error = Some(truncate_error(error))]

\* set(key, event): set(payload, merge=True) with every field in the payload
firestore_set(doc, event) ==
    [status |-> "completed", owner_id |-> None, lease_until |-> None,
     event |-> Some(event), last_error |-> None]

\* get(key): None without a document or without event_json in it
firestore_get(doc) ==
    IF doc.status = "absent" THEN None
    ELSE IF IsSome(doc.event) THEN doc.event ELSE None

(***************************************************************************)
(* The two backends driven by one sequence of calls: every call is made on *)
(* the embedded table and on the document collection at the same instant,  *)
(* and probe keeps what each of them returned.                             *)
(***************************************************************************)
BothCalled(op, k, sql_ret, doc_ret) ==
    probe' = Some([op |-> op, key |-> k, sql |-> sql_ret,
                   firestore |-> doc_ret])

backendFrame == <<now, hist, completions, cursorVars, pipeVars, routing_file>>

BothTryClaim(k, e, o) ==
    LET s == try_claim(idem[k], e, LeaseSeconds, Some(o), o, now)
        d == firestore_try_claim(documents[k], e, LeaseSeconds, Some(o), o, now)
    IN  /\ idem' = [idem EXCEPT ![k] = s.row]
        /\ documents' = [documents EXCEPT ![k] = d.row]
        /\ BothCalled("try_claim", k, s.result, d.result)
        /\ UNCHANGED backendFrame

BothMarkCompleted(k, o) ==
    /\ idem' = [idem EXCEPT ![k] = mark_completed(idem[k], o)]
    /\ documents' = [documents EXCEPT ![k] = firestore_mark_completed(@, o)]
    /\ BothCalled("mark_completed", k, None, None)
    /\ UNCHANGED backendFrame

BothMarkFailed(k, o, err) ==
    /\ idem' = [idem EXCEPT ![k] = mark_failed(idem[k], o, err)]
    /\ documents' = [documents EXCEPT ![k] = firestore_mark_failed(@, o, err)]
    /\ BothCalled("mark_failed", k, None, None)
    /\ UNCHANGED backendFrame

BothSet(k, e) ==
    /\ idem' = [idem EXCEPT ![k] = set(idem[k], e)]
    /\ documents' = [documents EXCEPT ![k] = firestore_set(@, e)]
    /\ BothCalled("set", k, None, None)
    /\ UNCHANGED backendFrame

BothGet(k) ==
    /\ BothCalled("get", k, get(idem[k]), firestore_get(documents[k]))
    /\ UNCHANGED <<idem, documents, backendFrame>>

NextBackends ==
    \/ \E k \in StoreKeys, e \in StoreEvents, o \in Owners : BothTryClaim(k, e, o)
    \/ \E k \in StoreKeys, o \in Owners : BothMarkCompleted(k, o)
    \/ \E k \in StoreKeys, o \in Owners, err \in ErrorArgs : BothMarkFailed(k, o, err)
    \/ \E k \in StoreKeys, e \in StoreEvents : BothSet(k, e)
    \/ \E k \in StoreKeys : BothGet(k)
    \/ Tick

SpecBackends == InitStores /\ [][NextBackends]_vars

\* C37: over every sequence of try_claim, mark_completed, mark_failed, get
\* and set calls made on both backends (mark_completed and mark_failed on a
\* never-claimed key included), each call returns the same result from the
\* embedded backend and from the document backend, and every key ends with
\* the same status, owner and stored event in both.
C37_BackendEquivalence ==
    /\ (IsSome(probe) /\ Val(probe).op \in
            {"try_claim", "mark_completed", "mark_failed", "set", "get"})
          => Val(probe).sql = Val(probe).firestore
    /\ \A k \in StoreKeys :
          /\ idem[k].status = documents[k].status
          /\ idem[k].owner_id = documents[k].owner_id
          /\ idem[k].event = documents[k].event

\* C38: a try_claim that returns claimed = FALSE (the key is completed, or
\* claimed under a lease that has not expired) leaves the record's status,
\* owner, lease expiry, stored event and last error as they were; and the
\* stored event of a key is replaced only by a try_claim that returns
\* claimed = TRUE or by set.
C38_RejectedClaimChangesNothing ==
    \A k \in StoreKeys :
        hist[k] # <<>> =>
            LET c == LastCall(k)
            IN  /\ (c.op = "try_claim" /\ ~c.ret.claimed) =>
                      /\ c.post = c.pre
                      /\ idem[k] = c.pre
                      /\ \/ c.pre.status = "completed"
                         \/ c.pre.status = "claimed" /\ ~lease_expired(c.pre, c.at)
                /\ c.post.event # c.pre.event =>
                      \/ c.op = "try_claim" /\ c.ret.claimed
                      \/ c.op = "set"

\* a claim by another worker is rejected under a running lease, half-way
\* through it, after an earlier call on the key
C38_Witness ==
    \E k \in StoreKeys :
        /\ Len(hist[k]) = 2
        /\ LET c == LastCall(k)
           IN  /\ c.op = "try_claim" /\ ~c.ret.claimed
               /\ c.ret.status = "claimed"
               /\ c.at = TickStep
               /\ c.pre.owner_id # Some(c.owner)
               /\ IsSome(c.pre.event)

\* C39: every stored record is well formed: a claimed record has an owner
\* and a lease expiry; a completed or failed record has no lease expiry; and
\* last_error is set only on a failed record.
C39_RecordWellFormed ==
    \A k \in StoreKeys :
        LET row == idem[k]
        IN  /\ row.status = "claimed" =>
                  IsSome(row.owner_id) /\ IsSome(row.lease_until)
            /\ row.status \in {"completed", "failed"} => row.lease_until = None
            /\ IsSome(row.last_error) => row.status = "failed"

\* a failed record with its error text is claimed again: the new record has
\* an owner and a lease and the error text is gone
C39_Witness ==
    \E k \in StoreKeys :
        /\ Len(hist[k]) = 2
        /\ hist[k][1].op = "mark_failed"
        /\ hist[k][1].pre.status = "claimed"
        /\ IsSome(hist[k][1].post.last_error)
        /\ hist[k][1].post.lease_until = None
        /\ hist[k][2].op = "try_claim" /\ hist[k][2].ret.claimed
        /\ idem[k].status = "claimed"
        /\ idem[k].last_error = None

StoreWriters == {"mark_completed", "mark_failed", "try_advance"}

\* C40: a run whose try_claim returned claimed = FALSE never calls
\* mark_completed, mark_failed or try_advance, and no step of that run, the
\* rejected claim included, changes the idempotency table or any cursor.
C40_DuplicateNotWriter ==
    [][\A r \in Runs :
          ( /\ runs'[r] # runs[r]
            /\ runs'[r].claim # None
            /\ ~Val(runs'[r].claim).claimed )
          => /\ runs'[r].calls \cap StoreWriters = {}
             /\ idem' = idem
             /\ cursor' = cursor]_vars

\* a Gmail request repeats a key that another run claimed and completed,
\* advancing the cursor: the duplicate run acts on the stored event and ends
C40_Witness ==
    \E r \in Runs, w \in Runs :
        /\ NotClaimed(r) /\ Ended(r)
        /\ runs[r].trigger # None
        /\ "execute_decision" \in runs[r].calls
        /\ runs[w].key = runs[r].key
        /\ {"mark_completed", "try_advance"} \subseteq runs[w].calls
        /\ \E m \in Mailboxes : cursor[m] # NoCursorRow

====
